---------------------------- MODULE Spec2Model ----------------------------
(***************************************************************************)
(* Yo Store backend (src/api.py, src/models.py): the product catalog, the  *)
(* file-backed price store, promo codes and orders, as a state machine.    *)
(*                                                                         *)
(* Text values (SKU, brand, model name, search term) are sequences of      *)
(* one-character strings, so that slicing, case folding and substring      *)
(* search are computed the way the Python code computes them.              *)
(* Python's None is the empty sequence for text and the number None (-1)   *)
(* for optional numbers; the code under study tests both with truthiness.  *)
(***************************************************************************)
EXTENDS Integers, Sequences, FiniteSets, TLC

\* ------------------------------------------------------------------------
\* Bounds of the model
\* ------------------------------------------------------------------------
MaxProducts == 2      \* product rows ever inserted (autoincrement ids 1..MaxProducts)
MaxMsTicks == 0       \* millisecond ticks of the clock within one second
MaxSecTicks == 1      \* whole-second ticks of the clock
MaxRows == 2          \* rows of one uploaded spreadsheet
MaxOrders == 2        \* orders in the table when the last request starts
MaxCart == 2          \* lines of a cart

\* ------------------------------------------------------------------------
\* Text helpers (str.upper, str.lower, slicing, `in`, str(int))
\* ------------------------------------------------------------------------
LowerLetters == <<"a","b","c","d","e","f","g","h","i","j","k","l","m",
                  "n","o","p","q","r","s","t","u","v","w","x","y","z">>

UpperLetters == <<"A","B","C","D","E","F","G","H","I","J","K","L","M",
                  "N","O","P","Q","R","S","T","U","V","W","X","Y","Z">>

UpperChar(c) ==
    IF \E i \in 1..26 : LowerLetters[i] = c
    THEN UpperLetters[CHOOSE i \in 1..26 : LowerLetters[i] = c]
    ELSE c

LowerChar(c) ==
    IF \E i \in 1..26 : UpperLetters[i] = c
    THEN LowerLetters[CHOOSE i \in 1..26 : UpperLetters[i] = c]
    ELSE c

Upper(s) == [i \in 1..Len(s) |-> UpperChar(s[i])]

Lower(s) == [i \in 1..Len(s) |-> LowerChar(s[i])]

\* s[:n]
Take(s, n) == SubSeq(s, 1, IF Len(s) < n THEN Len(s) ELSE n)

\* sub in s
Contains(s, sub) ==
    \E i \in 0..(Len(s) - Len(sub)) : SubSeq(s, i + 1, i + Len(sub)) = sub

Digits == <<"0","1","2","3","4","5","6","7","8","9">>

RECURSIVE IntToStr(_)
IntToStr(n) ==
    IF n < 10 THEN <<Digits[n + 1]>>
    ELSE IntToStr(n \div 10) \o <<Digits[(n % 10) + 1]>>

\* Python truthiness of an optional number / an optional text
None == -1

Truthy(x) == x # None /\ x # 0

NoText == << >>

\* text.strip(): the text without its leading and trailing blanks
RECURSIVE Strip(_)
Strip(text) ==
    IF text = << >> THEN text
    ELSE IF Head(text) = " " THEN Strip(Tail(text))
    ELSE IF text[Len(text)] = " " THEN Strip(SubSeq(text, 1, Len(text) - 1))
    ELSE text

\* ------------------------------------------------------------------------
\* Admin authentication
\* ------------------------------------------------------------------------
ADMIN_SESSION_TOKEN == <<"t","o","k","e","n">>

NoCookie == NoText

\* os.getenv('ADMIN_USERNAME', 'yo_admin'), os.getenv('ADMIN_PASSWORD', 'yo_admin')
ADMIN_USERNAME == <<"y","o","_","a","d","m","i","n">>

ADMIN_PASSWORD == <<"y","o","_","a","d","m","i","n">>

\* (mutant) any cookie at all passes the gate
is_admin_authenticated_AnyCookie(cookie) == cookie # NoCookie

is_admin_authenticated(cookie) == cookie = ADMIN_SESSION_TOKEN

\* the browser before any request: no cookie
NewClient == [admin_session |-> NoCookie, pc |-> "new"]

\* ------------------------------------------------------------------------
\* State
\* ------------------------------------------------------------------------
VARIABLES
    products,        \* committed Product rows: set of records
    prices,          \* price store: function SKU -> price record
    categories,      \* committed Category rows: set of records
    product_images,  \* committed ProductImage rows: set of <<level_2, color>>
    next_id,         \* next autoincrement Product.id
    level2_descriptions, \* committed Level2Description rows: function level_2 -> row
    clock,           \* wall clock, milliseconds
    promo_codes,     \* committed PromoCode rows: function code -> record
    orders,          \* committed Order rows: set of records
    order_items,     \* committed OrderItem rows: set of records
    next_order_id,   \* next autoincrement Order.id
    req,             \* in-flight POST /orders requests: function process -> record
    client,          \* the admin's browser: its admin_session cookie and its position
    last             \* the request answered last and its response

vars == <<products, prices, categories, product_images, next_id,
          level2_descriptions, client, clock, promo_codes, orders, order_items, next_order_id, req, last>>

catalogVars == <<products, prices, categories, product_images, next_id>>

orderVars == <<promo_codes, orders, order_items, next_order_id, req>>


\* ------------------------------------------------------------------------
\* File-backed price store (price_storage: get_price, set_price, delete_price)
\* ------------------------------------------------------------------------
\* discount_percentage = (old_price - price) / old_price * 100 when
\* old_price > price, else 0.  Prices of the model are chosen so that the
\* quotient is a whole number.
DiscountPercentage(price, old_price) ==
    IF Truthy(old_price) /\ old_price > price
    THEN ((old_price - price) * 100) \div old_price
    ELSE 0

\* get_price(sku) is the record store[sku] when HasPrice(store, sku), and
\* absence (Python None) otherwise
HasPrice(store, sku) == sku \in DOMAIN store

get_price(store, sku) == store[sku]

PriceRecord(price, old_price, currency, is_parse) ==
    LET old == IF old_price = None THEN price ELSE old_price
    IN [price |-> price, old_price |-> old, currency |-> currency,
        discount_percentage |-> DiscountPercentage(price, old),
        is_parse |-> is_parse]

\* set_price(sku, price, old_price, currency, is_parse): insert or overwrite
set_price(store, sku, price, old_price, currency, is_parse) ==
    [s \in (DOMAIN store) \cup {sku} |->
        IF s = sku THEN PriceRecord(price, old_price, currency, is_parse)
        ELSE store[s]]

\* delete_price(sku): remove the record, a no-op if absent
delete_price(store, sku) == [s \in (DOMAIN store) \ {sku} |-> store[s]]

RUB == <<"R","U","B">>

\* ------------------------------------------------------------------------
\* Relational helpers
\* ------------------------------------------------------------------------
\* Product(...) row; the timestamps are not modelled
\* The specifications column holds a JSON text.  The text is modelled by
\* what json.loads makes of it: nothing (the column is NULL), an object (a
\* map, here a set of <<key, value>> pairs with one pair per key), an array,
\* or a text that json.loads refuses.
NullDocument == [kind |-> "null", pairs |-> {}]

ArrayDocument == [kind |-> "array", pairs |-> {}]

InvalidDocument == [kind |-> "invalid", pairs |-> {}]

\* json.dumps(specs) of a map
json_dumps(map) == [kind |-> "object", pairs |-> map]

NoSpecs == {}

HasKey(map, key) == \E kv \in map : kv[1] = key

\* map.get(key)
GetKey(map, key) == (CHOOSE kv \in map : kv[1] = key)[2]

\* map[key] = value
SetKey(map, key, value) == {kv \in map : kv[1] # key} \cup {<<key, value>>}

\* if product_data.get(key): specs[key] = product_data[key]
SetIfGiven(map, key, value) == IF value # NoText THEN SetKey(map, key, value) ELSE map

\* specs = dict(product_data.get('specifications') or {}) and the four
\* variant fields of the request or row (d)
BuildSpecs(d) ==
    SetIfGiven(SetIfGiven(SetIfGiven(SetIfGiven(d.specifications,
        "color", d.color), "ram", d.ram), "disk", d.disk), "sim_config", d.sim_config)

Product(id, sku, name, brand, level_0, level_1, level_2, specifications, stock, is_available) ==
    [id |-> id, sku |-> sku, name |-> name, brand |-> brand,
     level_0 |-> level_0, level_1 |-> level_1, level_2 |-> level_2,
     specifications |-> specifications, stock |-> stock,
     is_available |-> is_available]

\* The read-only properties of Product (color, disk, sim_config, memory).
\* specs.get(key, '') raises AttributeError when json.loads returned a value
\* that is not a map; only JSONDecodeError and TypeError are caught.
PropertyRaises(specifications) == specifications.kind = "array"

\* the value the property returns when it does not raise
PropertyValue(specifications, key) ==
    IF specifications.kind = "object" /\ HasKey(specifications.pairs, key)
    THEN GetKey(specifications.pairs, key)
    ELSE NoText

Product_color(product) == PropertyValue(product.specifications, "color")

Product_disk(product) == PropertyValue(product.specifications, "disk")

Product_sim_config(product) == PropertyValue(product.specifications, "sim_config")

\* memory is an alias of disk
Product_memory(product) == Product_disk(product)

\* db.query(Product).filter(Product.sku == sku).first()
HasSku(table, sku) == \E p \in table : p.sku = sku

BySku(table, sku) == CHOOSE p \in table : p.sku = sku

HasId(table, id) == \E p \in table : p.id = id

ById(table, id) == CHOOSE p \in table : p.id = id

\* (mutant) the sku column without its unique constraint
SkuInsertAllowed_NoConstraint(table, sku) == TRUE

\* Product.sku is unique=True: an INSERT of a SKU the table holds fails
SkuInsertAllowed(table, sku) == ~HasSku(table, sku)

\* Category(...) row; NULL columns are NoText
Category(id, level_0, level_1, level_2, description, icon) ==
    [id |-> id, level_0 |-> level_0, level_1 |-> level_1, level_2 |-> level_2,
     description |-> description, icon |-> icon]

\* the rows with the three level columns equal to the given ones
CategoryRows(cats, level_0, level_1, level_2) ==
    {c \in cats : c.level_0 = level_0 /\ c.level_1 = level_1 /\ c.level_2 = level_2}

\* the id the table gives to the next inserted row
NextCategoryId(cats) ==
    IF cats = {} THEN 1 ELSE 1 + (CHOOSE n \in {c.id : c \in cats} : \A c \in cats : c.id <= n)

\* (mutant) the INSERT without the lookup before it
EnsureLevel_NoLookup(cats, level_0, level_1, level_2) ==
    cats \cup {Category(NextCategoryId(cats), level_0, level_1, level_2, NoText, NoText)}

\* exists = db.query(Category).filter(...).first(); if not exists: db.add(...)
EnsureLevel(cats, level_0, level_1, level_2) ==
    IF CategoryRows(cats, level_0, level_1, level_2) # {} THEN cats
    ELSE cats \cup {Category(NextCategoryId(cats), level_0, level_1, level_2, NoText, NoText)}

\* ensure_category_exists(db, level0, level1, level2)
ensure_category_exists(cats, level0, level1, level2) ==
    LET c0 == IF level0 # NoText THEN EnsureLevel(cats, level0, NoText, NoText) ELSE cats
        c1 == IF level0 # NoText /\ level1 # NoText
              THEN EnsureLevel(c0, level0, level1, NoText) ELSE c0
        c2 == IF level0 # NoText /\ level1 # NoText /\ level2 # NoText
              THEN EnsureLevel(c1, level0, level1, level2) ELSE c1
    IN c2

\* ------------------------------------------------------------------------
\* Responses
\* ------------------------------------------------------------------------
Response(op, cookie, status, body) ==
    [op |-> op, cookie |-> cookie, status |-> status, body |-> body]

NoBody == [none |-> TRUE]

\* last after a step that is not an HTTP request
NoResponse == Response("none", NoText, 0, NoBody)

\* ------------------------------------------------------------------------
\* Clock
\* ------------------------------------------------------------------------
T0 == 5000

\* digits of the timestamp in an order number
TimestampWidth == 3

MsPart(t) == (t - T0) % 1000

SecPart(t) == (t - T0) \div 1000

ClockAllowed(t) == MsPart(t) <= MaxMsTicks /\ SecPart(t) <= MaxSecTicks

Tick(d) ==
    /\ ClockAllowed(clock + d)
    /\ clock' = clock + d
    /\ last' = NoResponse
    /\ UNCHANGED <<catalogVars, orderVars, level2_descriptions, client>>

\* ------------------------------------------------------------------------
\* POST /import-single-product
\* ------------------------------------------------------------------------
\* int(datetime.utcnow().timestamp())
UtcSeconds(t) == t \div 1000

SingleProductSku(d, t) ==
    IF d.sku # NoText THEN d.sku
    ELSE Upper(Take(d.brand, 3)) \o IntToStr(UtcSeconds(t))

import_single_product(cookie, d) ==
    LET sku == SingleProductSku(d, clock)
        op == "import_single_product"
        row == Product(next_id, sku, d.name, d.brand, d.level0, d.level1,
                       d.level2, json_dumps(BuildSpecs(d)), d.stock, d.is_available)
        withImage == d.images /\ d.level_2 # NoText /\ d.color # NoText
        imageKey == <<d.level_2, d.color>>
        priced == IF Truthy(d.price)
                  THEN set_price(prices, sku, d.price, d.old_price, RUB, d.is_parse)
                  ELSE prices
    IN
    /\ UNCHANGED <<clock, orderVars, level2_descriptions, client>>
    /\ IF d.name = NoText \/ d.brand = NoText \/ d.model = NoText
       THEN /\ last' = Response(op, cookie, 400, [sku |-> sku, generated |-> d.sku = NoText])
            /\ UNCHANGED catalogVars
       ELSE IF HasSku(products, sku)
       THEN /\ last' = Response(op, cookie, 400, [sku |-> sku, generated |-> d.sku = NoText])
            /\ UNCHANGED catalogVars
       ELSE /\ next_id <= MaxProducts
            /\ SkuInsertAllowed(products, sku)
            \* db.add(new_product); db.commit()
            /\ products' = products \cup {row}
            /\ next_id' = next_id + 1
            /\ prices' = priced
            /\ IF ~withImage
               THEN \* the category rows are flushed but never committed
                    /\ UNCHANGED <<categories, product_images>>
                    /\ last' = Response(op, cookie, 200, [sku |-> sku, generated |-> d.sku = NoText])
               ELSE IF imageKey \in product_images
               THEN \* uix_level2_color fails the second commit: rollback, 400
                    /\ UNCHANGED <<categories, product_images>>
                    /\ last' = Response(op, cookie, 400, [sku |-> sku, generated |-> d.sku = NoText])
               ELSE /\ categories' = ensure_category_exists(categories, d.level0, d.level1, d.level2)
                    /\ product_images' = product_images \cup {imageKey}
                    /\ last' = Response(op, cookie, 200, [sku |-> sku, generated |-> d.sku = NoText])

\* ------------------------------------------------------------------------
\* DELETE /products/{product_id} and DELETE /products/by-sku/{sku}
\* ------------------------------------------------------------------------
\* (mutant) the delete that leaves the price-store entry behind
delete_product_KeepPrice(cookie, product_id, commitOk) ==
    /\ UNCHANGED <<clock, orderVars, level2_descriptions, client, categories, product_images, next_id, prices>>
    /\ IF ~HasId(products, product_id)
       THEN /\ last' = Response("delete_product", cookie, 404,
                       [deleted_product_id |-> product_id, deleted_sku |-> NoText, had_price |-> FALSE])
            /\ UNCHANGED products
       ELSE LET product == ById(products, product_id)
            IN /\ commitOk
               /\ products' = products \ {product}
               /\ last' = Response("delete_product", cookie, 200,
                      [deleted_product_id |-> product_id, deleted_sku |-> product.sku,
                       had_price |-> HasPrice(prices, product.sku)])

\* commitOk: whether db.commit() of the DELETE succeeds
delete_product(cookie, product_id, commitOk) ==
    LET op == "delete_product"
    IN
    /\ UNCHANGED <<clock, orderVars, level2_descriptions, client, categories, product_images, next_id>>
    /\ IF ~HasId(products, product_id)
       THEN /\ last' = Response(op, cookie, 404,
                       [deleted_product_id |-> product_id, deleted_sku |-> NoText, had_price |-> FALSE])
            /\ UNCHANGED <<products, prices>>
       ELSE LET product == ById(products, product_id)
            IN /\ prices' = delete_price(prices, product.sku)
               /\ IF commitOk
                  THEN /\ products' = products \ {product}
                       /\ last' = Response(op, cookie, 200,
                              [deleted_product_id |-> product_id, deleted_sku |-> product.sku,
                               had_price |-> HasPrice(prices, product.sku)])
                  ELSE /\ UNCHANGED products
                       /\ last' = Response(op, cookie, 400,
                              [deleted_product_id |-> product_id, deleted_sku |-> product.sku,
                               had_price |-> HasPrice(prices, product.sku)])

delete_product_by_sku(cookie, sku, commitOk) ==
    LET op == "delete_product_by_sku"
    IN
    /\ UNCHANGED <<clock, orderVars, level2_descriptions, client, categories, product_images, next_id>>
    /\ IF ~HasSku(products, sku)
       THEN /\ last' = Response(op, cookie, 404,
                       [deleted_product_id |-> 0, deleted_sku |-> sku, had_price |-> FALSE])
            /\ UNCHANGED <<products, prices>>
       ELSE LET product == BySku(products, sku)
            IN /\ prices' = delete_price(prices, sku)
               /\ IF commitOk
                  THEN /\ products' = products \ {product}
                       /\ last' = Response(op, cookie, 200,
                              [deleted_product_id |-> product.id, deleted_sku |-> sku,
                               had_price |-> HasPrice(prices, sku)])
                  ELSE /\ UNCHANGED products
                       /\ last' = Response(op, cookie, 400,
                              [deleted_product_id |-> product.id, deleted_sku |-> sku,
                               had_price |-> HasPrice(prices, sku)])

\* ------------------------------------------------------------------------
\* POST /update-price
\* ------------------------------------------------------------------------
\* (mutant) a body without is_parse always stores the flag as true
IsParseOrStored_AlwaysTrue(store, d) == IF ~d.has_is_parse THEN TRUE ELSE d.is_parse

\* is_parse of the body, the flag of the stored entry when the body has
\* none (true when the SKU has no entry)
IsParseOrStored(store, d) ==
    IF ~d.has_is_parse
    THEN (IF HasPrice(store, d.sku) THEN get_price(store, d.sku).is_parse ELSE TRUE)
    ELSE d.is_parse

\* d.has_is_parse: whether the body carries a non-null is_parse
update_price_by_sku(cookie, d) ==
    LET op == "update_price_by_sku"
        is_parse == IsParseOrStored(prices, d)
        old == IF Truthy(d.old_price) THEN d.old_price ELSE d.price
    IN
    /\ UNCHANGED <<clock, orderVars, level2_descriptions, client, products, categories, product_images, next_id>>
    /\ IF d.sku = NoText \/ d.price = None
       THEN /\ last' = Response(op, cookie, 400, [sku |-> d.sku, d |-> d])
            /\ UNCHANGED prices
       ELSE IF ~HasSku(products, d.sku)
       THEN /\ last' = Response(op, cookie, 404, [sku |-> d.sku, d |-> d])
            /\ UNCHANGED prices
       ELSE /\ prices' = set_price(prices, d.sku, d.price, old, RUB, is_parse)
            /\ last' = Response(op, cookie, 200,
                           [sku |-> d.sku, price |-> d.price, old_price |-> old, d |-> d])

\* ------------------------------------------------------------------------
\* PUT /products/{product_id}
\* ------------------------------------------------------------------------
\* color, disk and sim_config are properties without a setter
ReadOnlyProperties == {"color", "disk", "sim_config"}

\* the assignments of the present column fields
UpdatedColumns(product, d) ==
    [product EXCEPT
       !.name = IF "name" \in d.keys THEN d.name ELSE @,
       !.brand = IF "brand" \in d.keys THEN d.brand ELSE @,
       !.level_0 = IF "level_0" \in d.keys THEN d.level_0 ELSE @,
       !.level_1 = IF "level_1" \in d.keys THEN d.level_1 ELSE @,
       !.level_2 = IF "level_2" \in d.keys THEN d.level_2 ELSE @,
       !.is_available = IF "is_available" \in d.keys THEN d.is_available ELSE @,
       !.stock = IF "stock" \in d.keys THEN d.stock ELSE @]

\* d.keys: the keys the JSON body carries; the values of absent keys are
\* not read.  An assignment to a property without a setter and a property
\* read that raises end in the rollback and a 500.
update_product(cookie, product_id, d) ==
    LET op == "update_product"
        body == [product_id |-> product_id, d |-> d]
    IN
    /\ UNCHANGED <<clock, orderVars, level2_descriptions, client, categories, next_id>>
    /\ IF ~HasId(products, product_id)
       THEN /\ last' = Response(op, cookie, 404, body)
            /\ UNCHANGED <<products, prices, product_images>>
       ELSE LET product == ById(products, product_id)
                updated == UpdatedColumns(product, d)
                withImage == "img_list" \in d.keys /\ updated.level_2 # NoText
                is_parse == IF HasPrice(prices, product.sku)
                            THEN get_price(prices, product.sku).is_parse ELSE TRUE
                old == IF "old_price" \in d.keys THEN d.old_price ELSE d.price
                currency == IF "currency" \in d.keys THEN d.currency ELSE RUB
            IN IF \/ d.keys \cap ReadOnlyProperties # {}
                  \/ withImage /\ PropertyRaises(updated.specifications)
               THEN /\ last' = Response(op, cookie, 500, body)
                    /\ UNCHANGED <<products, prices, product_images>>
               ELSE /\ products' = (products \ {product}) \cup {updated}
                    /\ product_images' =
                          IF withImage /\ Product_color(updated) # NoText
                          THEN product_images \cup {<<updated.level_2, Product_color(updated)>>}
                          ELSE product_images
                    /\ prices' = IF "price" \in d.keys
                                 THEN set_price(prices, product.sku, d.price, old, currency, is_parse)
                                 ELSE prices
                    /\ last' = Response(op, cookie, 200, body)

\* ------------------------------------------------------------------------
\* A read of one of the properties of a stored product
\* ------------------------------------------------------------------------
PropertyNames == {"color", "disk", "sim_config", "memory"}

PropertyOf(product, name) ==
    CASE name = "color" -> Product_color(product)
      [] name = "disk" -> Product_disk(product)
      [] name = "sim_config" -> Product_sim_config(product)
      [] name = "memory" -> Product_memory(product)

\* product.<name>: the value, or the exception the getter lets through
read_property(product_id, name) ==
    LET product == ById(products, product_id)
        raised == PropertyRaises(product.specifications)
    IN /\ HasId(products, product_id)
       /\ last' = Response("read_property", NoCookie, IF raised THEN 500 ELSE 200,
                     [product_id |-> product_id, name |-> name, raised |-> raised,
                      value |-> IF raised THEN NoText ELSE PropertyOf(product, name)])
       /\ UNCHANGED <<catalogVars, orderVars, level2_descriptions, client, clock>>

\* ------------------------------------------------------------------------
\* Spreadsheet imports: one unit of work over all rows of the file
\* ------------------------------------------------------------------------
\* int(time.time() * 1000) % 100000
MsStamp(t) == t % 100000

UNK == <<"U","N","K">>

\* The session while the rows are processed: work/cats/imgs are the tables
\* as the open transaction sees them, store is the price file (written at
\* once), failed says that a flush raised and the transaction is rolled
\* back (every later statement of the session raises), poison that a
\* pending INSERT will raise at the next flush.
Session(t) ==
    [work |-> products, cats |-> categories, imgs |-> product_images,
     store |-> prices, failed |-> FALSE, poison |-> FALSE,
     added |-> 0, updated |-> 0, errors |-> << >>, nid |-> next_id, t |-> t]

RowError(acc, i) == [acc EXCEPT !.errors = Append(acc.errors, i)]

\* a statement raised: the transaction is rolled back
RowFlushError(acc, i) ==
    [acc EXCEPT !.errors = Append(acc.errors, i), !.failed = TRUE,
                !.poison = FALSE, !.work = products, !.cats = categories,
                !.imgs = product_images]

ImportSku(row, t) ==
    IF row.sku # NoText THEN row.sku
    ELSE Upper(Take(row.brand, 3)) \o Upper(Take(row.level2, 5)) \o IntToStr(MsStamp(t))

\* one iteration of the loop of import_products_from_excel
ImportRow(acc0, row, i, dt) ==
    LET acc == [acc0 EXCEPT !.t = acc0.t + dt]
        sku == ImportSku(row, acc.t)
        withImage == row.image_url /\ row.level2 # NoText /\ row.color # NoText
        imageKey == <<row.level2, row.color>>
    IN
    IF row.level0 = NoText THEN RowError(acc, i)
    ELSE IF row.brand = NoText \/ row.level2 = NoText THEN RowError(acc, i)
    ELSE IF acc.failed \/ acc.poison THEN RowFlushError(acc, i)
    ELSE IF row.sku # NoText /\ HasSku(acc.work, row.sku) THEN RowError(acc, i)
    ELSE IF ~SkuInsertAllowed(acc.work, sku) THEN RowFlushError(acc, i)
    ELSE [acc EXCEPT
            !.work = acc.work \cup {Product(acc.nid, sku, row.name, row.brand,
                                            row.level0, row.level1, row.level2,
                                            json_dumps(BuildSpecs(row)), row.stock, TRUE)},
            !.nid = acc.nid + 1,
            !.cats = ensure_category_exists(acc.cats, row.level0, row.level1, row.level2),
            !.store = set_price(acc.store, sku, row.price, row.price, row.currency, row.is_parse),
            !.imgs = IF withImage THEN acc.imgs \cup {imageKey} ELSE acc.imgs,
            !.poison = withImage /\ imageKey \in acc.imgs,
            !.added = acc.added + 1]

RECURSIVE ImportRows(_, _, _, _)
ImportRows(acc, rows, offs, i) ==
    IF i > Len(rows) THEN acc
    ELSE ImportRows(ImportRow(acc, rows[i], i, offs[i]), rows, offs, i + 1)

UpdateOrCreateSku(row, t) ==
    IF row.sku # NoText THEN row.sku
    ELSE Upper(Take(row.brand, 3))
         \o Upper(Take(IF row.level_2 = NoText THEN UNK ELSE row.level_2, 5))
         \o IntToStr(MsStamp(t))

\* one iteration of the loop of update_or_create_products_from_excel
UpdateOrCreateRow(acc0, row, i, dt) ==
    LET acc == [acc0 EXCEPT !.t = acc0.t + dt]
        sku == UpdateOrCreateSku(row, acc.t)
        old == IF row.old_price = None THEN row.price ELSE row.old_price
    IN
    IF acc.failed \/ acc.poison THEN RowFlushError(acc, i)
    ELSE IF HasSku(acc.work, sku)
    THEN LET existing == BySku(acc.work, sku)
             \* json.loads of the stored text ({} when NULL or refused)
             existing_specs == IF existing.specifications.kind = "object"
                               THEN existing.specifications.pairs ELSE NoSpecs
             merged == BuildSpecs([row EXCEPT !.specifications = existing_specs])
             fields == [existing EXCEPT !.name = row.name, !.level_0 = row.level0,
                                        !.level_1 = row.level1, !.level_2 = row.level2,
                                        !.brand = row.brand, !.stock = row.stock]
             is_parse == IF HasPrice(acc.store, sku)
                         THEN get_price(acc.store, sku).is_parse ELSE TRUE
         IN IF existing.specifications.kind = "array"
            THEN IF merged # NoSpecs
                 THEN \* existing_specs[key] = ... on a list raises: the row is
                      \* an error, the fields already set stay in the session
                      [acc EXCEPT
                         !.work = (acc.work \ {existing}) \cup {fields},
                         !.cats = ensure_category_exists(acc.cats, row.level0, row.level1, row.level2),
                         !.errors = Append(acc.errors, i)]
                 ELSE [acc EXCEPT
                         !.work = (acc.work \ {existing}) \cup {fields},
                         !.cats = ensure_category_exists(acc.cats, row.level0, row.level1, row.level2),
                         !.store = set_price(acc.store, sku, row.price, old, row.currency, is_parse),
                         !.updated = acc.updated + 1]
            ELSE [acc EXCEPT
                    !.work = (acc.work \ {existing})
                                 \cup {[fields EXCEPT !.specifications = json_dumps(merged)]},
                    !.cats = ensure_category_exists(acc.cats, row.level0, row.level1, row.level2),
                    !.store = set_price(acc.store, sku, row.price, old, row.currency, is_parse),
                    !.updated = acc.updated + 1]
    ELSE LET withImage == row.image_url /\ row.level_2 # NoText /\ row.color # NoText
             imageKey == <<row.level_2, row.color>>
         IN [acc EXCEPT
               !.work = acc.work \cup {Product(acc.nid, sku, row.name, row.brand,
                                               row.level0, row.level1, row.level2,
                                               json_dumps(BuildSpecs(row)), row.stock, TRUE)},
               !.nid = acc.nid + 1,
               !.cats = ensure_category_exists(acc.cats, row.level0, row.level1, row.level2),
               !.store = set_price(acc.store, sku, row.price, old, row.currency, row.is_parse),
               !.imgs = IF withImage THEN acc.imgs \cup {imageKey} ELSE acc.imgs,
               !.poison = withImage /\ imageKey \in acc.imgs,
               !.added = acc.added + 1]

RECURSIVE UpdateOrCreateRows(_, _, _, _)
UpdateOrCreateRows(acc, rows, offs, i) ==
    IF i > Len(rows) THEN acc
    ELSE UpdateOrCreateRows(UpdateOrCreateRow(acc, rows[i], i, offs[i]), rows, offs, i + 1)

\* The end of both handlers: db.commit() of the rows, the upsert of the
\* "images" sheet, the response.  A commit that raises ends in a 400 and
\* the unit of work is discarded; the price file keeps what was written.
UploadBody(f, added, updated, errors) ==
    [skus |-> [i \in 1..Len(f.rows) |-> f.rows[i].sku], added |-> added,
     updated |-> updated, errors |-> errors, total_processed |-> Len(f.rows),
     ext_ok |-> f.ext_ok, rows |-> f.rows]

FinishImport(op, cookie, final, f) ==
    /\ final.nid <= MaxProducts + 1
    /\ ClockAllowed(final.t)
    /\ clock' = final.t
    /\ prices' = final.store
    /\ UNCHANGED <<orderVars, level2_descriptions, client>>
    /\ IF final.failed \/ final.poison
       THEN /\ UNCHANGED <<products, categories, product_images, next_id>>
            /\ last' = Response(op, cookie, 400, UploadBody(f, 0, 0, << >>))
       ELSE /\ products' = final.work
            /\ categories' = final.cats
            /\ product_images' = final.imgs \cup {f.images[k] : k \in 1..Len(f.images)}
            /\ next_id' = final.nid
            /\ last' = Response(op, cookie, 200,
                          UploadBody(f, final.added, final.updated, final.errors))

\* POST /api/excel/import/products
\* f: the upload: ext_ok (the file name ends in .xlsx or .xls), rows and
\* images (the parsed sheets), offs (milliseconds the clock advances before
\* each row)
import_products_from_excel(cookie, f) ==
    LET op == "import_products_from_excel"
    IN IF ~f.ext_ok
       THEN /\ last' = Response(op, cookie, 400, UploadBody(f, 0, 0, << >>))
            /\ UNCHANGED <<catalogVars, orderVars, level2_descriptions, client, clock>>
       ELSE FinishImport(op, cookie, ImportRows(Session(clock), f.rows, f.offs, 1), f)

\* POST /api/excel/update-or-create/products
update_or_create_products_from_excel(cookie, f) ==
    LET op == "update_or_create_products_from_excel"
    IN IF ~f.ext_ok
       THEN /\ last' = Response(op, cookie, 400, UploadBody(f, 0, 0, << >>))
            /\ UNCHANGED <<catalogVars, orderVars, level2_descriptions, client, clock>>
       ELSE FinishImport(op, cookie, UpdateOrCreateRows(Session(clock), f.rows, f.offs, 1), f)

\* ------------------------------------------------------------------------
\* GET /api/excel/export/products and the way back through the parser
\* ------------------------------------------------------------------------
\* specs_str: the JSON text of the specifications, '' when the stored text
\* is absent, refused by json.loads, or an empty value
SpecsCell(specifications) ==
    IF specifications.kind = "object" /\ specifications.pairs # NoSpecs
    THEN specifications
    ELSE IF specifications.kind = "array" THEN ArrayDocument
    ELSE NullDocument

\* (mutant) the export that leaves the SKU column empty
ExportRow_NoSku(product) ==
    [sku |-> NoText, name |-> product.name, description |-> NoText,
     level0 |-> product.level_0, level1 |-> product.level_1,
     level2 |-> product.level_2, brand |-> product.brand,
     price |-> IF HasPrice(prices, product.sku)
               THEN get_price(prices, product.sku).price ELSE 0,
     currency |-> IF HasPrice(prices, product.sku)
                  THEN get_price(prices, product.sku).currency ELSE RUB,
     stock |-> product.stock, specs_str |-> SpecsCell(product.specifications)]

\* one row of the sheet, columns 1 to 11
ExportRow(product) ==
    [sku |-> product.sku, name |-> product.name, description |-> NoText,
     level0 |-> product.level_0, level1 |-> product.level_1,
     level2 |-> product.level_2, brand |-> product.brand,
     price |-> IF HasPrice(prices, product.sku)
               THEN get_price(prices, product.sku).price ELSE 0,
     currency |-> IF HasPrice(prices, product.sku)
                  THEN get_price(prices, product.sku).currency ELSE RUB,
     stock |-> product.stock, specs_str |-> SpecsCell(product.specifications)]

\* for row_idx, product in enumerate(results, 2): the rows in id order
RECURSIVE ExportSheet(_)
ExportSheet(rows) ==
    IF rows = {} THEN << >>
    ELSE LET first == CHOOSE p \in rows : \A o \in rows : p.id <= o.id
         IN <<ExportRow(first)>> \o ExportSheet(rows \ {first})

\* the second sheet: one row per ProductImage
RECURSIVE ImagesSheet(_)
ImagesSheet(rows) ==
    IF rows = {} THEN << >>
    ELSE LET first == CHOOSE r \in rows : TRUE
         IN <<first>> \o ImagesSheet(rows \ {first})

export_products_to_excel(cookie) ==
    /\ last' = Response("export_products_to_excel", cookie, 200,
                        [sheet |-> ExportSheet(products),
                         images |-> ImagesSheet(product_images)])
    /\ UNCHANGED <<catalogVars, orderVars, level2_descriptions, client, clock>>

\* ExcelHandler.parse_products_excel: the record of one sheet row.  The
\* exported sheet has no column for old price, color, ram, disk, sim_config
\* or images.
ParsedRow(cells) ==
    [sku |-> cells.sku, name |-> cells.name, brand |-> cells.brand,
     level0 |-> cells.level0, level1 |-> cells.level1, level2 |-> cells.level2,
     level_2 |-> NoText, price |-> cells.price, old_price |-> None,
     currency |-> cells.currency, is_parse |-> TRUE, image_url |-> FALSE,
     color |-> NoText, ram |-> NoText, disk |-> NoText, sim_config |-> NoText,
     specifications |-> IF cells.specs_str.kind = "object"
                        THEN cells.specs_str.pairs ELSE NoSpecs,
     stock |-> cells.stock]

parse_products_excel(sheet) == [i \in 1..Len(sheet) |-> ParsedRow(sheet[i])]

\* the exported file uploaded as it is
UploadOfSheet(book) ==
    [ext_ok |-> TRUE, rows |-> parse_products_excel(book.sheet),
     offs |-> [i \in 1..Len(book.sheet) |-> 0], images |-> book.images]

\* ------------------------------------------------------------------------
\* Catalog read endpoints
\* ------------------------------------------------------------------------
\* price_data.get('old_price', 0.0)
OldPriceOrZero(rec) == IF rec.old_price = None THEN 0 ELSE rec.old_price

\* json.loads(text) if text else {}, and {} when the text is refused
LoadedMap(doc) == IF doc.kind = "object" THEN doc.pairs ELSE NoSpecs

\* specifications of the handlers: the product's own map
OwnSpecifications(product) == LoadedMap(product.specifications)

\* level2_specs: the details of the Level2Description row of the model
Level2Specs(product) ==
    IF product.level_2 # NoText /\ product.level_2 \in DOMAIN level2_descriptions
    THEN LoadedMap(level2_descriptions[product.level_2].details)
    ELSE NoSpecs

\* {**under, **over}
Overlay(under, over) == {kv \in under : ~HasKey(over, kv[1])} \cup over

\* all_specifications = {**level2_specs, **specifications}
AllSpecifications(product) == Overlay(Level2Specs(product), OwnSpecifications(product))

\* {**x} of a value that is not a map raises TypeError
MergeRaises(product) ==
    \/ product.specifications.kind = "array"
    \/ /\ product.level_2 # NoText /\ product.level_2 \in DOMAIN level2_descriptions
       /\ level2_descriptions[product.level_2].details.kind = "array"

\* (mutant) the detail handler without its check of the price record
GetProductResponse_NoPriceCheck(product_id) ==
    IF ~HasId(products, product_id) THEN [status |-> 404, body |-> NoBody]
    ELSE IF ~HasPrice(prices, ById(products, product_id).sku)
         THEN [status |-> 500, body |-> NoBody]
         ELSE [status |-> 200, body |-> NoBody]

\* GET /products/{product_id}
GetProductResponse(product_id) ==
    IF ~HasId(products, product_id) THEN [status |-> 404, body |-> NoBody]
    ELSE LET product == ById(products, product_id)
         IN IF ~HasPrice(prices, product.sku) THEN [status |-> 404, body |-> NoBody]
            ELSE IF MergeRaises(product) THEN [status |-> 500, body |-> NoBody]
            ELSE LET price_data == get_price(prices, product.sku)
                 IN [status |-> 200,
                     body |-> [id |-> product.id, sku |-> product.sku,
                               specifications |-> AllSpecifications(product),
                               price |-> price_data.price,
                               old_price |-> OldPriceOrZero(price_data),
                               discount_percentage |-> price_data.discount_percentage,
                               currency |-> price_data.currency]]

get_product(product_id) ==
    LET r == GetProductResponse(product_id)
    IN /\ last' = Response("get_product", NoCookie, r.status, [product_id |-> product_id, detail |-> r.body])
       /\ UNCHANGED <<catalogVars, orderVars, level2_descriptions, client, clock>>

\* GET /all-products: one entry of the list
AllProductsEntry(product) ==
    IF ~HasPrice(prices, product.sku)
    THEN [id |-> product.id, sku |-> product.sku, price |-> 0, old_price |-> 0,
          discount_percentage |-> 0, currency |-> RUB, is_parse |-> TRUE]
    ELSE LET price_data == get_price(prices, product.sku)
         IN [id |-> product.id, sku |-> product.sku, price |-> price_data.price,
             old_price |-> OldPriceOrZero(price_data),
             discount_percentage |-> price_data.discount_percentage,
             currency |-> price_data.currency, is_parse |-> price_data.is_parse]

GetAllProductsResponse == {AllProductsEntry(p) : p \in products}

get_all_products ==
    /\ last' = Response("get_all_products", NoCookie, 200, GetAllProductsResponse)
    /\ UNCHANGED <<catalogVars, orderVars, level2_descriptions, client, clock>>

\* db.query(Product).filter(level_2 == product.level_2, brand == product.brand)
ModelProducts(product) ==
    {m \in products : m.level_2 = product.level_2 /\ m.brand = product.brand}

\* (mutant) the first priced variant instead of the cheapest one
BestVariant_FirstPriced(product) ==
    LET priced == {m \in ModelProducts(product) : HasPrice(prices, m.sku)}
    IN CHOOSE m \in priced : \A o \in priced : m.id <= o.id

\* The loop over all_model_products keeps the first variant with the
\* smallest price; the rows come in id order.
BestVariant(product) ==
    LET priced == {m \in ModelProducts(product) : HasPrice(prices, m.sku)}
        cheapest == {m \in priced : \A o \in priced :
                        get_price(prices, m.sku).price <= get_price(prices, o.sku).price}
    IN CHOOSE m \in cheapest : \A o \in cheapest : m.id <= o.id

HasPricedVariant(product) == \E m \in ModelProducts(product) : HasPrice(prices, m.sku)

\* price_obj of a model card (get_products and search_products)
CardPrice(product) ==
    IF ~HasPricedVariant(product)
    THEN [price |-> 0, old_price |-> 0, discount_percentage |-> 0, currency |-> RUB]
    ELSE LET best == get_price(prices, BestVariant(product).sku)
             min_price == best.price
             min_old_price == IF Truthy(best.old_price) THEN best.old_price ELSE min_price
         IN [price |-> min_price, old_price |-> min_old_price,
             discount_percentage |->
                 IF Truthy(min_old_price) /\ min_old_price > min_price
                 THEN ((min_old_price - min_price) * 100) \div min_old_price
                 ELSE 0,
             currency |-> best.currency]

ModelCard(product) ==
    LET price_obj == CardPrice(product)
    IN [id |-> product.id, sku |-> product.sku, name |-> product.name,
        brand |-> product.brand, level_2 |-> product.level_2,
        specifications |-> OwnSpecifications(product),
        price |-> price_obj.price, old_price |-> price_obj.old_price,
        discount_percentage |-> price_obj.discount_percentage,
        currency |-> price_obj.currency]

\* func.min(Product.id) ... group_by(Product.level_2, Product.brand)
Representatives(rows) ==
    {p \in rows : \A o \in rows :
        (o.level_2 = p.level_2 /\ o.brand = p.brand) => p.id <= o.id}

\* q: the optional query filters brand, level0, level1, level2 (NoText when
\* not given); the page (limit, offset) holds every card
MatchesFilters(p, q) ==
    /\ q.brand # NoText => p.brand = q.brand
    /\ q.level0 # NoText => p.level_0 = q.level0
    /\ q.level1 # NoText => p.level_1 = q.level1
    /\ q.level2 # NoText => p.level_2 = q.level2

GetProductsResponse(q) ==
    {ModelCard(p) : p \in Representatives({r \in products : MatchesFilters(r, q)})}

\* the status of a listing: a card whose merge raises fails the request
ListingStatus(rows) == IF \E p \in Representatives(rows) : MergeRaises(p) THEN 500 ELSE 200

get_products(q) ==
    /\ last' = Response("get_products", NoCookie,
                        ListingStatus({r \in products : MatchesFilters(r, q)}),
                        GetProductsResponse(q))
    /\ UNCHANGED <<catalogVars, orderVars, level2_descriptions, client, clock>>

\* Product.x.ilike('%q%')
ILike(text, q) == Contains(Lower(text), Lower(q))

MatchesSearch(p, q) ==
    /\ p.is_available
    /\ (ILike(p.name, q) \/ ILike(p.brand, q) \/ ILike(p.level_2, q))

SearchProductsResponse(q) ==
    {ModelCard(p) : p \in Representatives({r \in products : MatchesSearch(r, q)})}

search_products(q) ==
    /\ last' = Response("search_products", NoCookie,
                        ListingStatus({r \in products : MatchesSearch(r, q)}),
                        SearchProductsResponse(q))
    /\ UNCHANGED <<catalogVars, orderVars, level2_descriptions, client, clock>>

\* GET /admin
admin(cookie) ==
    /\ last' = Response("admin", cookie,
                        IF is_admin_authenticated(cookie) THEN 200 ELSE 302, NoBody)
    /\ UNCHANGED <<catalogVars, orderVars, level2_descriptions, client, clock>>

\* POST /login
\* body: what the request carries: kind "not_json" (request.json() raises,
\* the handler goes on with {}), "array" (a JSON value without get) or
\* "object" with username and password (NoText when missing, null or '')
login(body) ==
    LET parsed == IF body.kind = "not_json"
                  THEN [kind |-> "object", username |-> NoText, password |-> NoText]
                  ELSE body
        username == Strip(parsed.username)
        password == Strip(parsed.password)
        sent == client.admin_session
    IN
    /\ UNCHANGED <<catalogVars, orderVars, level2_descriptions, clock>>
    /\ IF parsed.kind # "object"
       THEN \* body.get raises AttributeError, which nothing catches
            /\ last' = Response("login", sent, 500, [body |-> body, set_cookie |-> NoCookie])
            /\ client' = [client EXCEPT
                             !.pc = IF sent = NoCookie THEN "login_failed" ELSE @]
       ELSE IF username = ADMIN_USERNAME /\ password = ADMIN_PASSWORD
       THEN /\ last' = Response("login", sent, 200,
                           [body |-> body, set_cookie |-> ADMIN_SESSION_TOKEN])
            /\ client' = [admin_session |-> ADMIN_SESSION_TOKEN, pc |-> "logged_in"]
       ELSE /\ last' = Response("login", sent, 401, [body |-> body, set_cookie |-> NoCookie])
            /\ client' = [client EXCEPT
                             !.pc = IF sent = NoCookie THEN "login_failed" ELSE @]

\* POST /logout: delete_cookie makes the browser drop admin_session
logout ==
    /\ last' = Response("logout", client.admin_session, 200, NoBody)
    /\ client' = [admin_session |-> NoCookie, pc |-> "logged_out"]
    /\ UNCHANGED <<catalogVars, orderVars, level2_descriptions, clock>>

\* ------------------------------------------------------------------------
\* POST /orders
\* ------------------------------------------------------------------------
\* The handler of one request, by the statements it sends to the database:
\* the reads (order count, promo code), the flush of the order row together
\* with the changed promo code, the commit with the order items.  Requests
\* are served by several processes; each has its own session (req[p]).
\* the server processes, and the session of a process with no request
Procs == {1, 2}

NoRequest == [pc |-> "idle"]

RECURSIVE ZeroPad(_, _)
ZeroPad(s, width) == IF Len(s) >= width THEN s ELSE ZeroPad(<<"0">> \o s, width)

\* dt.now().strftime('%Y%m%d%H%M%S'): fixed width, one value per second
StrfTime(t) == ZeroPad(IntToStr(UtcSeconds(t)), TimestampWidth)

OrderNumber(t, count) ==
    <<"O","R","D","-">> \o StrfTime(t) \o <<"-">> \o IntToStr(count + 1)

\* db.query(PromoCode).filter(PromoCode.code == code.upper()).first()
HasPromo(table, code) == \E c \in table : c.code = Upper(code)

PromoByCode(table, code) == CHOOSE c \in table : c.code = Upper(code)

\* order_data.discount_amount or 0.0
DiscountOrZero(discount_amount) == IF Truthy(discount_amount) THEN discount_amount ELSE 0

\* (mutant) the difference without the floor at zero
FinalTotal_NoClamp(total, discount_amount) == total - discount_amount

\* max(0, order_data.total - discount_amount)
FinalTotal(total, discount_amount) ==
    IF total - discount_amount > 0 THEN total - discount_amount ELSE 0

Order(id, order_number, d) ==
    [id |-> id, order_number |-> order_number,
     customer_name |-> d.customer_name, total |-> d.total,
     promo_code |-> d.promo_code,
     discount_amount |-> DiscountOrZero(d.discount_amount),
     final_total |-> FinalTotal(d.total, DiscountOrZero(d.discount_amount)),
     status |-> "new"]

OrderItems(order_id, items) ==
    {[order_id |-> order_id, line |-> i, product_id |-> items[i].product_id,
      price |-> items[i].price, quantity |-> items[i].quantity] :
        i \in 1..Len(items)}

\* db.query(Order).count(); db.query(PromoCode)...first();
\* promo_code.used_count += 1 (on the session's copy of the row)
create_order_begin(p, d) ==
    /\ req[p].pc = "idle"
    /\ Cardinality(orders) < MaxOrders
    /\ req' = [req EXCEPT ![p] =
                 [pc |-> "begun", order_data |-> d,
                  order_number |-> OrderNumber(clock, Cardinality(orders)),
                  promo_found |-> d.promo_code # NoText /\ HasPromo(promo_codes, d.promo_code),
                  used_count |->
                      IF d.promo_code # NoText /\ HasPromo(promo_codes, d.promo_code)
                      THEN PromoByCode(promo_codes, d.promo_code).used_count + 1
                      ELSE None,
                  order_id |-> None]]
    /\ last' = NoResponse
    /\ UNCHANGED <<catalogVars, level2_descriptions, client, clock, promo_codes, orders, order_items, next_order_id>>

\* except Exception: db.rollback(); raise HTTPException(500)
create_order_fail(p) ==
    /\ req' = [req EXCEPT ![p] = NoRequest]
    /\ last' = Response("create_order", NoCookie, 500,
                        [order_data |-> req[p].order_data, id |-> None])

\* db.add(order); db.flush(): UPDATE promo_codes, INSERT INTO orders.  The
\* database admits one writing transaction at a time; the id of a row that
\* is rolled back is given to the next row.
create_order_flush(p) ==
    /\ req[p].pc = "begun"
    /\ \A o \in Procs : req[o].pc # "flushed"
    /\ IF \E o \in orders : o.order_number = req[p].order_number
       THEN create_order_fail(p)
       ELSE /\ req' = [req EXCEPT ![p].pc = "flushed", ![p].order_id = next_order_id]
            /\ last' = NoResponse
    /\ UNCHANGED <<catalogVars, level2_descriptions, client, clock, promo_codes, orders, order_items, next_order_id>>

PromoAfterOrder(table, r) ==
    IF r.promo_found
    THEN {IF c.code = Upper(r.order_data.promo_code)
          THEN [c EXCEPT !.used_count = r.used_count] ELSE c : c \in table}
    ELSE table

\* (mutant) the order row committed on its own before the items
create_order_commit_OrderFirst(p, fk_enforced) ==
    /\ req[p].pc = "flushed"
    /\ orders' = orders \cup {Order(req[p].order_id, req[p].order_number, req[p].order_data)}
    /\ next_order_id' = next_order_id + 1
    /\ IF fk_enforced /\ \E i \in 1..Len(req[p].order_data.items) :
                             ~HasId(products, req[p].order_data.items[i].product_id)
       THEN /\ create_order_fail(p)
            /\ UNCHANGED <<promo_codes, order_items>>
       ELSE /\ order_items' = order_items \cup OrderItems(req[p].order_id, req[p].order_data.items)
            /\ promo_codes' = PromoAfterOrder(promo_codes, req[p])
            /\ req' = [req EXCEPT ![p] = NoRequest]
            /\ last' = Response("create_order", NoCookie, 200,
                                [order_data |-> req[p].order_data, id |-> req[p].order_id])
    /\ UNCHANGED <<catalogVars, level2_descriptions, client, clock>>

\* the loop of db.add(order_item); db.commit(); db.refresh(order).  A
\* database that enforces the foreign key order_items.product_id refuses an
\* item of an unknown product (fk_enforced); another one stores it.
create_order_commit(p, fk_enforced) ==
    /\ req[p].pc = "flushed"
    /\ IF fk_enforced /\ \E i \in 1..Len(req[p].order_data.items) :
                             ~HasId(products, req[p].order_data.items[i].product_id)
       THEN /\ create_order_fail(p)
            /\ UNCHANGED <<promo_codes, orders, order_items, next_order_id>>
       ELSE /\ orders' = orders \cup {Order(req[p].order_id, req[p].order_number, req[p].order_data)}
            /\ order_items' = order_items \cup OrderItems(req[p].order_id, req[p].order_data.items)
            /\ promo_codes' = PromoAfterOrder(promo_codes, req[p])
            /\ next_order_id' = next_order_id + 1
            /\ req' = [req EXCEPT ![p] = NoRequest]
            /\ last' = Response("create_order", NoCookie, 200,
                                [order_data |-> req[p].order_data, id |-> req[p].order_id])
    /\ UNCHANGED <<catalogVars, level2_descriptions, client, clock>>

\* ------------------------------------------------------------------------
\* POST /promo-codes/check
\* ------------------------------------------------------------------------
PromoCode(code, discount_type, discount_value, min_order_amount, free_item_sku, free_item_condition, is_active, usage_limit, used_count, valid_from, valid_until) ==
    [code |-> code, discount_type |-> discount_type,
     discount_value |-> discount_value, min_order_amount |-> min_order_amount,
     free_item_sku |-> free_item_sku, free_item_condition |-> free_item_condition,
     is_active |-> is_active, usage_limit |-> usage_limit,
     used_count |-> used_count, valid_from |-> valid_from,
     valid_until |-> valid_until]

\* free_item_condition, a JSON text: absent, a map with the key category
\* (or level_0), or a text json.loads refuses
NoCondition == [kind |-> "none", category |-> NoText]

CategoryCondition(category) == [kind |-> "category", category |-> category]

BadJsonCondition == [kind |-> "bad_json", category |-> NoText]

\* the first loop over request.items: a product of the category in the cart
HasCategoryItem(items, category) ==
    \E i \in 1..Len(items) :
        /\ HasId(products, items[i].product_id)
        /\ ById(products, items[i].product_id).level_0 = category

\* promo_code.free_item_sku.lower() in product.sku.lower()
IsFreeItemLine(items, i, free_item_sku) ==
    /\ HasId(products, items[i].product_id)
    /\ Contains(Lower(ById(products, items[i].product_id).sku), Lower(free_item_sku))

\* (mutant) the last matching line instead of the first
FreeItemLine_Last(items, free_item_sku) ==
    LET lines == {i \in 1..Len(items) : IsFreeItemLine(items, i, free_item_sku)}
    IN IF lines = {} THEN 0 ELSE CHOOSE i \in lines : \A j \in lines : j <= i

\* the second loop: the first line whose product matches (0: none)
FreeItemLine(items, free_item_sku) ==
    LET lines == {i \in 1..Len(items) : IsFreeItemLine(items, i, free_item_sku)}
    IN IF lines = {} THEN 0 ELSE CHOOSE i \in lines : \A j \in lines : i <= j

Invalid(message) ==
    [valid |-> FALSE, discount_amount |-> None, free_item_sku |-> NoText,
     message |-> message]

Valid(discount_amount, free_item_sku) ==
    [valid |-> TRUE, discount_amount |-> discount_amount,
     free_item_sku |-> free_item_sku, message |-> "applied"]

FreeItemResponse(promo_code, request) ==
    IF /\ promo_code.free_item_condition.kind = "category"
       /\ ~HasCategoryItem(request.items, promo_code.free_item_condition.category)
    THEN Invalid("category")
    ELSE IF promo_code.free_item_sku = NoText THEN Valid(0, NoText)
    ELSE LET line == FreeItemLine(request.items, promo_code.free_item_sku)
         IN IF line = 0 THEN Invalid("not in cart")
            ELSE LET free_item_in_cart == ById(products, request.items[line].product_id)
                 IN IF HasPrice(prices, free_item_in_cart.sku)
                    THEN Valid(get_price(prices, free_item_in_cart.sku).price,
                               free_item_in_cart.sku)
                    ELSE Invalid("no price")

\* (mutant) the comparison with the minimum turned around
BelowMinimum_Reversed(promo_code, request) ==
    /\ Truthy(promo_code.min_order_amount)
    /\ request.cart_total > promo_code.min_order_amount

\* promo_code.min_order_amount and request.cart_total < promo_code.min_order_amount
BelowMinimum(promo_code, request) ==
    /\ Truthy(promo_code.min_order_amount)
    /\ request.cart_total < promo_code.min_order_amount

CheckPromoCodeResponse(request, now) ==
    IF ~\E c \in promo_codes : c.code = Upper(request.code) /\ c.is_active
    THEN Invalid("not found")
    ELSE LET promo_code == CHOOSE c \in promo_codes :
                               c.code = Upper(request.code) /\ c.is_active
         IN IF promo_code.valid_from # None /\ promo_code.valid_from > now
            THEN Invalid("not yet")
            ELSE IF promo_code.valid_until # None /\ promo_code.valid_until < now
            THEN Invalid("expired")
            ELSE IF Truthy(promo_code.usage_limit)
                    /\ promo_code.used_count >= promo_code.usage_limit
            THEN Invalid("exhausted")
            ELSE IF BelowMinimum(promo_code, request)
            THEN Invalid("minimum")
            ELSE IF promo_code.discount_type = "fixed"
            THEN Valid(IF promo_code.discount_value < request.cart_total
                       THEN promo_code.discount_value ELSE request.cart_total, NoText)
            ELSE IF promo_code.discount_type = "percentage"
            THEN Valid((request.cart_total * promo_code.discount_value) \div 100, NoText)
            ELSE IF promo_code.discount_type = "free_item"
            THEN FreeItemResponse(promo_code, request)
            ELSE Valid(0, NoText)

check_promo_code(request) ==
    /\ last' = Response("check_promo_code", NoCookie, 200,
                        [request |-> request,
                         response |-> CheckPromoCodeResponse(request, clock)])
    /\ UNCHANGED <<catalogVars, orderVars, level2_descriptions, client, clock>>

\* ------------------------------------------------------------------------
\* External writers of the price document
\* ------------------------------------------------------------------------
\* A sync process outside the API rewrites one record of the price file;
\* it may leave old_price out (None).
ExternalPriceWrite(sku, rec) ==
    /\ prices' = [s \in (DOMAIN prices) \cup {sku} |-> IF s = sku THEN rec ELSE prices[s]]
    /\ last' = NoResponse
    /\ UNCHANGED <<products, categories, product_images, next_id, orderVars, level2_descriptions, client, clock>>

\* Level2Description(...) row; level_2 is unique and is the key of the table
Level2Description(description, details) == [description |-> description, details |-> details]

\* db.query(distinct(Product.level_2)) without the NULL and empty values
Level2List(rows) == {p.level_2 : p \in {r \in rows : r.level_2 # NoText}}

\* (mutant) every level_2 of the products, described or not
MissingLevel2_All(rows, table) == Level2List(rows)

\* missing_level2: the values without a Level2Description row
MissingLevel2(rows, table) == {l \in Level2List(rows) : l \notin DOMAIN table}

\* add_missing_level2_descriptions.py: a row with an empty description and
\* details '{}' for every missing level_2, one commit
add_missing_level2_descriptions ==
    LET missing_level2 == MissingLevel2(products, level2_descriptions)
    IN /\ level2_descriptions' =
             [l \in (DOMAIN level2_descriptions) \cup missing_level2 |->
                 IF l \in missing_level2
                 THEN Level2Description(NoText, json_dumps(NoSpecs))
                 ELSE level2_descriptions[l]]
       /\ last' = Response("add_missing_level2_descriptions", NoCookie, 0,
                           [added_count |-> Cardinality(missing_level2)])
       /\ UNCHANGED <<catalogVars, orderVars, client, clock>>

\* The details of a model are filled in by the operators, outside the API.
ExternalDetailsWrite(level_2, doc) ==
    /\ level_2 \in DOMAIN level2_descriptions
    /\ level2_descriptions' = [level2_descriptions EXCEPT ![level_2].details = doc]
    /\ last' = NoResponse
    /\ UNCHANGED <<catalogVars, orderVars, client, clock>>

\* ------------------------------------------------------------------------
\* The category-icon seeding scripts
\* ------------------------------------------------------------------------
\* the level_0 names of the scripts (the source has them in Russian:
\* Naushniki, Planshety, Umnye chasy, Feny i stajlery, and the two legacy
\* names Feny/stajlery and Stajlery)
Headphones == <<"N","a","u","s","h">>

Tablets == <<"P","l","a","n">>

SmartWatches == <<"U","m","n","y","e">>

StylersName == <<"F","e","n","y"," ","i">>

StylersSlashName == <<"F","e","n","y","/">>

StylersOldName == <<"S","t","a","j">>

\* the icon URLs and the default descriptions of the scripts
headphones_icon == <<"i","H">>

tablets_icon == <<"i","T">>

smart_watches_icon == <<"i","W">>

stylers_icon == <<"i","S">>

HeadphonesDescription == <<"d","H">>

TabletsDescription == <<"d","T">>

SmartWatchesDescription == <<"d","W">>

StylersDescription == <<"d","S">>

\* the top-level rows of a name: level_1 and level_2 are NULL
TopLevelRows(cats, name) == CategoryRows(cats, name, NoText, NoText)

\* .first(): the row with the smallest id
FirstRow(rows) == CHOOSE c \in rows : \A o \in rows : c.id <= o.id

\* existing.icon = icon; existing.description = existing.description or text
WithIcon(row, icon, description) ==
    [row EXCEPT !.icon = icon,
                !.description = IF @ # NoText THEN @ ELSE description]

\* (mutant) the script without its lookup: it always inserts
SeedCategory_NoLookup(cats, name, icon, description) ==
    cats \cup {Category(NextCategoryId(cats), name, NoText, NoText, description, icon)}

\* the body the headphones, tablets and smart watches scripts share: update
\* the top-level row of the name if there is one, insert it otherwise
SeedCategory(cats, name, icon, description) ==
    IF TopLevelRows(cats, name) # {}
    THEN LET existing_category == FirstRow(TopLevelRows(cats, name))
         IN (cats \ {existing_category}) \cup {WithIcon(existing_category, icon, description)}
    ELSE cats \cup {Category(NextCategoryId(cats), name, NoText, NoText, description, icon)}

\* a run of a script: its commit, nothing else changes
ScriptRun(op, cats) ==
    /\ categories' = cats
    /\ last' = Response(op, NoCookie, 0, NoBody)
    /\ UNCHANGED <<products, prices, product_images, next_id, orderVars,
                   level2_descriptions, client, clock>>

add_headphones_category ==
    ScriptRun("add_headphones_category",
              SeedCategory(categories, Headphones, headphones_icon, HeadphonesDescription))

add_tablets_category ==
    ScriptRun("add_tablets_category",
              SeedCategory(categories, Tablets, tablets_icon, TabletsDescription))

add_smart_watches_category ==
    ScriptRun("add_smart_watches_category",
              SeedCategory(categories, SmartWatches, smart_watches_icon, SmartWatchesDescription))

\* a legacy row takes the current name
Renamed(cats, row) ==
    (cats \ {row})
       \cup {[WithIcon(row, stylers_icon, StylersDescription) EXCEPT !.level_0 = StylersName]}

\* (mutant) the stylers script without the two rename branches
StylersSeed_NoRename(cats) ==
    SeedCategory(cats, StylersName, stylers_icon, StylersDescription)

\* the four branches of add_stylers_category
StylersSeed(cats) ==
    LET old_category_stylers == TopLevelRows(cats, StylersOldName)
        old_category_slash == TopLevelRows(cats, StylersSlashName)
        existing_category == TopLevelRows(cats, StylersName)
    IN IF old_category_slash # {} /\ existing_category = {}
       THEN Renamed(cats, FirstRow(old_category_slash))
       ELSE IF old_category_stylers # {} /\ existing_category = {}
       THEN Renamed(cats, FirstRow(old_category_stylers))
       ELSE SeedCategory(cats, StylersName, stylers_icon, StylersDescription)

add_stylers_category == ScriptRun("add_stylers_category", StylersSeed(categories))

\* ------------------------------------------------------------------------
\* POST /update-price served by several processes: the read of the prior
\* record and the write of the new one are two accesses of the price file
\* ------------------------------------------------------------------------
\* (mutant) the write marks every price as parsed
FlagToWrite_Parsed(r) == TRUE

\* is_parse as the handler passes it to set_price: the value it computed
\* from the body and the record it read
FlagToWrite(r) == r.is_parse

\* the checks and get_price(sku) of the handler of process p
update_price_read(p, cookie, d) ==
    /\ req[p].pc = "idle"
    /\ d.sku # NoText /\ d.price # None
    /\ HasSku(products, d.sku)
    /\ req' = [req EXCEPT ![p] =
                  [pc |-> "price_read", cookie |-> cookie, d |-> d,
                   is_parse |-> IsParseOrStored(prices, d)]]
    /\ last' = NoResponse
    /\ UNCHANGED <<catalogVars, level2_descriptions, client, clock,
                   promo_codes, orders, order_items, next_order_id>>

\* set_price(...) and the response of the handler of process p
update_price_write(p) ==
    /\ req[p].pc = "price_read"
    /\ LET r == req[p]
           d == r.d
           old == IF Truthy(d.old_price) THEN d.old_price ELSE d.price
       IN /\ prices' = set_price(prices, d.sku, d.price, old, RUB, FlagToWrite(r))
          /\ last' = Response("update_price_by_sku", r.cookie, 200,
                        [sku |-> d.sku, price |-> d.price, old_price |-> old, d |-> d,
                         read_flag |-> r.is_parse,
                         had_entry |-> HasPrice(prices, d.sku),
                         flag_before_write |->
                            IF HasPrice(prices, d.sku) THEN prices[d.sku].is_parse ELSE TRUE])
    /\ req' = [req EXCEPT ![p] = NoRequest]
    /\ UNCHANGED <<products, categories, product_images, next_id, level2_descriptions,
                   client, clock, promo_codes, orders, order_items, next_order_id>>

\* ------------------------------------------------------------------------
\* GET /categories
\* ------------------------------------------------------------------------
\* one entry of the result: the group of the Category rows of a level_0 with
\* the count of the products of that level_0.  The description and the icon
\* are the greatest of the group or a placeholder; only whether the
\* placeholder is used is kept.
CategoryEntry(cats, rows, level_0) ==
    [name |-> level_0, level_0 |-> level_0,
     product_count |-> Cardinality({p \in rows : p.level_0 = level_0}),
     placeholder_description |->
         \A c \in cats : c.level_0 = level_0 => c.description = NoText,
     placeholder_icon |-> \A c \in cats : c.level_0 = level_0 => c.icon = NoText]

\* GROUP BY Category.level_0
CategoryEntries(cats, rows) ==
    {CategoryEntry(cats, rows, level_0) : level_0 \in {c.level_0 : c \in cats}}

\* result.sort(key=product_count, reverse=True): the lists of all entries in
\* non-increasing order of product_count; groups of equal count come in the
\* order the database returned them, which GROUP BY does not fix
SortedByCount(entries) ==
    {s \in [1..Cardinality(entries) -> entries] :
        /\ \A i, j \in DOMAIN s : i # j => s[i] # s[j]
        /\ \A i, j \in DOMAIN s : i < j => s[i].product_count >= s[j].product_count}

get_categories ==
    /\ \E result \in SortedByCount(CategoryEntries(categories, products)) :
          last' = Response("get_categories", NoCookie, 200, [result |-> result])
    /\ UNCHANGED <<catalogVars, level2_descriptions, client, clock, orderVars>>

\* ------------------------------------------------------------------------
\* Values the requests are drawn from
\* ------------------------------------------------------------------------
Appo == <<"A","p","p","o">>

Appy == <<"A","p","p","y">>

PadAir == <<"P","a","d","A","i","r">>

Pod == <<"P","o","d">>

Phones == <<"P","h">>

Line1 == <<"L","1">>

Name1 == <<"n","1">>

SkuA == <<"S","1">>

SkuB == <<"S","2">>

SkuC == <<"S","3">>

USD == <<"U","S","D">>

BadCookie == <<"x">>

Cookies == {NoCookie, BadCookie, ADMIN_SESSION_TOKEN}

\* bodies of POST /import-single-product
SingleBodies(skus, brands, level2s, priceset) ==
    [name : {Name1}, brand : brands, model : {Pod}, sku : skus,
     level0 : {Phones}, level1 : {Line1}, level2 : level2s,
     level_2 : {NoText}, color : {NoText}, images : {FALSE},
     price : priceset, old_price : {None}, is_parse : {TRUE},
     is_available : {TRUE}, specifications : {NoSpecs}, ram : {NoText},
     disk : {NoText}, sim_config : {NoText}, stock : {0}]

\* parsed rows of the products sheet
SheetRows(skus, brands, level2s, priceset) ==
    [sku : skus, name : {Name1}, brand : brands, level0 : {Phones},
     level1 : {Line1}, level2 : level2s, level_2 : {NoText},
     price : priceset, old_price : {None}, currency : {RUB},
     is_parse : {TRUE}, image_url : {FALSE}, color : {NoText},
     specifications : {NoSpecs}, ram : {NoText}, disk : {NoText},
     sim_config : {NoText}, stock : {0}]

\* uploads of at most MaxRows rows
Uploads(rowset) ==
    UNION {[ext_ok : {TRUE}, rows : [1..n -> rowset], offs : [1..n -> {0, 1}],
            images : {<< >>}] : n \in 1..MaxRows}

\* ------------------------------------------------------------------------
\* Initial state: an empty catalog, an empty price file, no order
\* ------------------------------------------------------------------------
InitCatalog ==
    /\ products = {}
    /\ prices = << >>
    /\ categories = {}
    /\ level2_descriptions = << >>
    /\ client = NewClient
    /\ product_images = {}
    /\ next_id = 1
    /\ clock = T0
    /\ last = NoResponse

InitNoOrders ==
    /\ promo_codes = {}
    /\ orders = {}
    /\ order_items = {}
    /\ next_order_id = 1
    /\ req = [p \in Procs |-> NoRequest]

Init == InitCatalog /\ InitNoOrders

\* ------------------------------------------------------------------------
\* Catalog writes: creation, import, deletion (admin client)
\* ------------------------------------------------------------------------
CatalogSkus == {NoText, SkuA}

NextCatalog ==
    \/ \E d \in SingleBodies(CatalogSkus, {Appo}, {PadAir}, {100}) :
          import_single_product(ADMIN_SESSION_TOKEN, d)
    \/ \E f \in Uploads(SheetRows(CatalogSkus, {Appo}, {Pod}, {100})) :
          import_products_from_excel(ADMIN_SESSION_TOKEN, f)
    \/ \E f \in Uploads(SheetRows(CatalogSkus, {Appo}, {Pod}, {100})) :
          update_or_create_products_from_excel(ADMIN_SESSION_TOKEN, f)
    \/ \E id \in 1..MaxProducts, ok \in BOOLEAN :
          delete_product(ADMIN_SESSION_TOKEN, id, ok)
    \/ \E sku \in {SkuA}, ok \in BOOLEAN :
          delete_product_by_sku(ADMIN_SESSION_TOKEN, sku, ok)
    \/ \E d \in {1, 1000} : Tick(d)

SpecCatalog == Init /\ [][NextCatalog]_vars

\* ------------------------------------------------------------------------
\* Update-or-create uploads whose rows may lack the model (level2)
\* ------------------------------------------------------------------------
UpsertRows == SheetRows({SkuA, SkuB}, {Appo}, {Pod, NoText}, {150})

NextUpsert ==
    \/ \E d \in SingleBodies({SkuA}, {Appo}, {PadAir}, {100}) :
          import_single_product(ADMIN_SESSION_TOKEN, d)
    \/ \E f \in Uploads(UpsertRows) :
          update_or_create_products_from_excel(ADMIN_SESSION_TOKEN, f)
    \/ \E id \in 1..MaxProducts : delete_product(ADMIN_SESSION_TOKEN, id, TRUE)

SpecUpsert == Init /\ [][NextUpsert]_vars

\* ------------------------------------------------------------------------
\* Admin writes by clients with and without the session cookie
\* ------------------------------------------------------------------------
PriceBodies(skus, priceset) ==
    [sku : skus, price : priceset, old_price : {None}, has_is_parse : {FALSE},
     is_parse : {TRUE}]

NextAdmin ==
    \/ \E c \in Cookies, d \in SingleBodies({SkuA, SkuB}, {Appo}, {PadAir}, {100}) :
          import_single_product(c, d)
    \/ \E c \in Cookies, f \in Uploads(SheetRows({SkuA}, {Appo}, {Pod}, {100})) :
          import_products_from_excel(c, f)
    \/ \E c \in Cookies, f \in Uploads(SheetRows({SkuB}, {Appo}, {Pod}, {150})) :
          update_or_create_products_from_excel(c, f)
    \/ \E c \in Cookies, id \in 1..MaxProducts :
          delete_product(c, id, TRUE)
    \/ \E c \in Cookies, sku \in {SkuA, SkuB} :
          delete_product_by_sku(c, sku, TRUE)
    \/ \E c \in Cookies, d \in PriceBodies({SkuA, SkuB}, {150}) :
          update_price_by_sku(c, d)
    \/ \E c \in Cookies : admin(c)

SpecAdmin == Init /\ [][NextAdmin]_vars

\* ------------------------------------------------------------------------
\* Catalog browsing: a few products, their prices rewritten, the listings
\* ------------------------------------------------------------------------
ListingBody(sku, brand, level2, price) ==
    [name |-> Name1, brand |-> brand, model |-> level2, sku |-> sku,
     level0 |-> Phones, level1 |-> Line1, level2 |-> level2,
     level_2 |-> NoText, color |-> NoText, images |-> FALSE,
     price |-> price, old_price |-> None, is_parse |-> TRUE,
     is_available |-> TRUE, specifications |-> NoSpecs, ram |-> NoText,
     disk |-> NoText, sim_config |-> NoText, stock |-> 0]

ListingBodies ==
    {ListingBody(SkuA, Appo, PadAir, None), ListingBody(SkuB, Appo, PadAir, 100),
     ListingBody(SkuC, Appy, PadAir, None), ListingBody(SkuC, Appo, Pod, None)}

ListingSkus == {SkuA, SkuB, SkuC}

\* a record as a sync process writes it: no old_price, another currency
SyncedPrice ==
    [price |-> 120, old_price |-> None, currency |-> USD,
     discount_percentage |-> 0, is_parse |-> TRUE]

NoFilter == [brand |-> NoText, level0 |-> NoText, level1 |-> NoText, level2 |-> NoText]

ListingFilters ==
    {NoFilter, [NoFilter EXCEPT !.brand = Appo], [NoFilter EXCEPT !.level2 = Pod]}

SearchTerms == {<<"p","a","d">>, <<"P","P","Y">>}

NextListing ==
    \/ \E d \in ListingBodies : import_single_product(ADMIN_SESSION_TOKEN, d)
    \/ \E d \in [sku : ListingSkus, price : {100, 150}, old_price : {None, 200},
                 has_is_parse : {FALSE}, is_parse : {TRUE}] :
          update_price_by_sku(ADMIN_SESSION_TOKEN, d)
    \/ \E sku \in {p.sku : p \in products} : ExternalPriceWrite(sku, SyncedPrice)
    \/ \E id \in 1..MaxProducts : get_product(id)
    \/ get_all_products
    \/ \E q \in ListingFilters : get_products(q)
    \/ \E q \in SearchTerms : search_products(q)

SpecListing == Init /\ [][NextListing]_vars

\* ------------------------------------------------------------------------
\* Checkout: orders created by two server processes
\* ------------------------------------------------------------------------
PR == <<"P","R">>

Item(product_id) ==
    [product_id |-> product_id, name |-> Name1, price |-> 100, quantity |-> 1]

UnknownProductId == 9

OrderBody(discount_amount, promo_code, items) ==
    [customer_name |-> Name1, total |-> 1000, discount_amount |-> discount_amount,
     promo_code |-> promo_code, items |-> items]

OrderBodies ==
    {OrderBody(200, <<"p","r">>, <<Item(1)>>),
     OrderBody(1500, <<"p","r">>, <<Item(1)>>),
     OrderBody(None, NoText, <<Item(1)>>),
     OrderBody(None, <<"z">>, <<Item(1)>>),
     OrderBody(200, <<"p","r">>, <<Item(1), Item(UnknownProductId)>>)}

\* promo codes are seeded outside the API
SeededForOrders ==
    {PromoCode(PR, "fixed", 200, None, NoText, NoCondition, TRUE, None, 0, None, None)}

InitOrders ==
    /\ products = {Product(1, SkuA, Name1, Appo, Phones, Line1, PadAir, json_dumps(NoSpecs), 0, TRUE)}
    /\ prices = set_price(<< >>, SkuA, 100, None, RUB, TRUE)
    /\ categories = {}
    /\ level2_descriptions = << >>
    /\ client = NewClient
    /\ product_images = {}
    /\ next_id = 2
    /\ clock = T0
    /\ last = NoResponse
    /\ promo_codes = SeededForOrders
    /\ orders = {}
    /\ order_items = {}
    /\ next_order_id = 1
    /\ req = [p \in Procs |-> NoRequest]

NextOrders ==
    \/ \E p \in Procs, d \in OrderBodies : create_order_begin(p, d)
    \/ \E p \in Procs : create_order_flush(p)
    \/ \E p \in Procs, fk_enforced \in BOOLEAN : create_order_commit(p, fk_enforced)
    \/ Tick(1000)

SpecOrders == InitOrders /\ [][NextOrders]_vars

\* ------------------------------------------------------------------------
\* Promo codes checked against carts
\* ------------------------------------------------------------------------
AD == <<"A","D">>

SkuAd1 == <<"x","A","d">>

SkuAd2 == <<"a","D","2">>

Other == <<"O","t">>

PromoCatalog ==
    {Product(1, SkuAd1, Name1, Appo, Phones, Line1, PadAir, json_dumps(NoSpecs), 0, TRUE),
     Product(2, SkuAd2, Name1, Appo, Other, Line1, Pod, json_dumps(NoSpecs), 0, TRUE),
     Product(3, SkuA, Name1, Appo, Phones, Line1, PadAir, json_dumps(NoSpecs), 0, TRUE)}

Windows ==
    {[valid_from |-> None, valid_until |-> None],
     [valid_from |-> T0 + 1000, valid_until |-> None],
     [valid_from |-> None, valid_until |-> T0 + 500]}

Usages ==
    {[usage_limit |-> None, used_count |-> 0],
     [usage_limit |-> 1, used_count |-> 0],
     [usage_limit |-> 1, used_count |-> 1]}

SeededForCheck ==
    {PromoCode(PR, "free_item", None, m, s, c, TRUE, u.usage_limit, u.used_count,
               w.valid_from, w.valid_until) :
        m \in {None, 5000}, s \in {NoText, AD},
        c \in {NoCondition, CategoryCondition(Phones), BadJsonCondition},
        u \in Usages, w \in Windows}
    \cup {PromoCode(PR, "free_item", None, m, AD, NoCondition, FALSE, None, 0, None, None) :
             m \in {None, 5000}}
    \cup {PromoCode(PR, t.discount_type, t.discount_value, m, NoText, NoCondition, TRUE,
                    u.usage_limit, u.used_count, w.valid_from, w.valid_until) :
             t \in {[discount_type |-> "fixed", discount_value |-> 5000],
                    [discount_type |-> "percentage", discount_value |-> 10]},
             m \in {None, 5000}, u \in Usages, w \in Windows}

RECURSIVE CartsOfLength(_)
CartsOfLength(n) ==
    IF n = 0 THEN {<< >>}
    ELSE {Append(c, Item(id)) : c \in CartsOfLength(n - 1), id \in 1..3}

Carts ==
    UNION {CartsOfLength(n) : n \in 0..MaxCart} \cup {<<Item(UnknownProductId)>>}

CheckRequests ==
    [code : {<<"p","r">>}, cart_total : {4000, 6000}, items : Carts]
    \cup {[code |-> <<"z">>, cart_total |-> 6000, items |-> <<Item(1)>>]}

InitPromo ==
    /\ products = PromoCatalog
    /\ prices = set_price(set_price(<< >>, SkuAd1, 300, None, RUB, TRUE),
                          SkuA, 100, None, RUB, TRUE)
    /\ categories = {}
    /\ level2_descriptions = << >>
    /\ client = NewClient
    /\ product_images = {}
    /\ next_id = 4
    /\ clock = T0
    /\ last = NoResponse
    /\ \E c \in SeededForCheck : promo_codes = {c}
    /\ orders = {}
    /\ order_items = {}
    /\ next_order_id = 1
    /\ req = [p \in Procs |-> NoRequest]

NextPromo ==
    \/ \E request \in CheckRequests : check_promo_code(request)
    \/ update_price_by_sku(ADMIN_SESSION_TOKEN,
                           [sku |-> SkuAd2, price |-> 150, old_price |-> None,
                            has_is_parse |-> FALSE, is_parse |-> TRUE])
    \/ Tick(1000)

SpecPromo == InitPromo /\ [][NextPromo]_vars

\* ------------------------------------------------------------------------
\* Round trip: products with specifications, the export, its upload
\* ------------------------------------------------------------------------
Black == <<"B","k">>

Gb128 == <<"1","2","8">>

RoundTripBody(sku, level1, price, specifications, color, disk) ==
    [name |-> Name1, brand |-> Appo, model |-> PadAir, sku |-> sku,
     level0 |-> Phones, level1 |-> level1, level2 |-> PadAir,
     level_2 |-> NoText, color |-> color, images |-> FALSE,
     price |-> price, old_price |-> None, is_parse |-> TRUE,
     is_available |-> TRUE, specifications |-> specifications, ram |-> NoText,
     disk |-> disk, sim_config |-> NoText, stock |-> 0]

RoundTripBodies ==
    {RoundTripBody(SkuA, NoText, None, NoSpecs, NoText, NoText),
     RoundTripBody(SkuA, Line1, 100, {<<"chip", Name1>>}, Black, NoText),
     RoundTripBody(SkuB, Line1, None, {<<"chip", Name1>>}, Black, Gb128),
     RoundTripBody(SkuB, NoText, 100, NoSpecs, NoText, Gb128),
     RoundTripBody(SkuC, Line1, 100, {<<"color", Name1>>}, Black, NoText)}

NextRoundTrip ==
    \/ \E d \in RoundTripBodies : import_single_product(ADMIN_SESSION_TOKEN, d)
    \/ \E id \in 1..MaxProducts : delete_product(ADMIN_SESSION_TOKEN, id, TRUE)
    \/ export_products_to_excel(ADMIN_SESSION_TOKEN)
    \/ /\ last.op = "export_products_to_excel"
       /\ update_or_create_products_from_excel(ADMIN_SESSION_TOKEN,
                                               UploadOfSheet(last.body))

SpecRoundTrip == Init /\ [][NextRoundTrip]_vars

\* ------------------------------------------------------------------------
\* Product edits: a few products, PUT /products/{id} with partial bodies
\* ------------------------------------------------------------------------
EditBody(keys) ==
    [keys |-> keys, name |-> Appy, brand |-> Appy, level_0 |-> Line1,
     level_1 |-> Pod, level_2 |-> Pod, color |-> Black, disk |-> Gb128,
     sim_config |-> Name1, is_available |-> FALSE, stock |-> 5,
     price |-> 150, old_price |-> 200, currency |-> USD]

EditBodies ==
    {EditBody({}), EditBody({"name"}), EditBody({"name", "color"}),
     EditBody({"brand", "level_0", "level_1", "level_2", "is_available", "stock"}),
     EditBody({"disk", "sim_config"}), EditBody({"price"}), EditBody({"img_list"})}

EditSeeds ==
    {RoundTripBody(SkuA, Line1, 100, {<<"chip", Name1>>}, Black, NoText),
     RoundTripBody(SkuB, NoText, None, NoSpecs, NoText, NoText)}

NextEdit ==
    \/ \E d \in EditSeeds : import_single_product(ADMIN_SESSION_TOKEN, d)
    \/ \E id \in 1..MaxProducts, d \in EditBodies :
          update_product(ADMIN_SESSION_TOKEN, id, d)
    \/ \E id \in 1..MaxProducts : delete_product(ADMIN_SESSION_TOKEN, id, TRUE)

SpecEdit == Init /\ [][NextEdit]_vars

\* ------------------------------------------------------------------------
\* Direct price updates: bodies with and without sku, price, old_price and
\* is_parse, for SKUs with and without a product
\* ------------------------------------------------------------------------
PriceUpdateBodies ==
    [sku : {NoText, SkuA, SkuB, SkuC}, price : {None, 0, 150},
     old_price : {None, 200}, has_is_parse : BOOLEAN, is_parse : {FALSE}]

PriceSeeds ==
    {RoundTripBody(SkuA, Line1, 100, NoSpecs, NoText, NoText),
     RoundTripBody(SkuB, Line1, None, NoSpecs, NoText, NoText)}

NextPrice ==
    \/ \E d \in PriceSeeds : import_single_product(ADMIN_SESSION_TOKEN, d)
    \/ \E d \in PriceUpdateBodies : update_price_by_sku(ADMIN_SESSION_TOKEN, d)
    \/ \E id \in 1..MaxProducts : delete_product(ADMIN_SESSION_TOKEN, id, TRUE)

SpecPrice == Init /\ [][NextPrice]_vars

\* ------------------------------------------------------------------------
\* Property reads: one stored product whose specifications column holds any
\* document (NULL, a refused text, an array, a map over a few keys)
\* ------------------------------------------------------------------------
SpecKeys == {"color", "disk", "sim_config", "chip"}

SpecValues == {Black, Gb128}

\* the maps over SpecKeys: each key absent or bound to one value
SpecMaps ==
    {{<<k, f[k]>> : k \in {x \in SpecKeys : f[x] # NoText}} :
        f \in [SpecKeys -> SpecValues \cup {NoText}]}

Documents ==
    {NullDocument, InvalidDocument, ArrayDocument} \cup {json_dumps(m) : m \in SpecMaps}

InitProperties ==
    /\ \E doc \in Documents :
          products = {Product(1, SkuA, Name1, Appo, Phones, Line1, PadAir, doc, 0, TRUE)}
    /\ prices = << >>
    /\ categories = {}
    /\ level2_descriptions = << >>
    /\ client = NewClient
    /\ product_images = {}
    /\ next_id = 2
    /\ clock = T0
    /\ last = NoResponse
    /\ InitNoOrders

NextProperties == \E name \in PropertyNames : read_property(1, name)

SpecProperties == InitProperties /\ [][NextProperties]_vars

\* ------------------------------------------------------------------------
\* Model details: priced products with their own specifications, the
\* backfilled Level2Description rows, details written by the operators
\* ------------------------------------------------------------------------
DetailSeeds ==
    {RoundTripBody(SkuA, Line1, 100, {<<"chip", Name1>>}, Black, NoText),
     RoundTripBody(SkuB, Line1, 100, NoSpecs, NoText, Gb128)}

DetailDocuments ==
    {json_dumps({<<"chip", Gb128>>, <<"screen", Name1>>}), json_dumps(NoSpecs),
     InvalidDocument, ArrayDocument}

NextDetails ==
    \/ \E d \in DetailSeeds : import_single_product(ADMIN_SESSION_TOKEN, d)
    \/ add_missing_level2_descriptions
    \/ \E doc \in DetailDocuments : ExternalDetailsWrite(PadAir, doc)
    \/ \E id \in 1..MaxProducts : get_product(id)
    \/ get_products(NoFilter)
    \/ search_products(PadAir)
    \/ \E id \in 1..MaxProducts : delete_product(ADMIN_SESSION_TOKEN, id, TRUE)

SpecDetails == Init /\ [][NextDetails]_vars

\* ------------------------------------------------------------------------
\* The admin's browser: logins with good and bad bodies, logout, the page
\* ------------------------------------------------------------------------
Padded(text) == <<" ">> \o text \o <<" ">>

LoginNames ==
    {NoText, ADMIN_USERNAME, Padded(ADMIN_USERNAME), Upper(ADMIN_USERNAME),
     Take(ADMIN_USERNAME, 2), <<" ">>, BadCookie}

LoginBodies ==
    [kind : {"object"}, username : LoginNames, password : LoginNames]
      \cup [kind : {"array", "not_json"}, username : {NoText}, password : {NoText}]

NextLogin ==
    \/ \E body \in LoginBodies : login(body)
    \/ logout
    \/ \E c \in {client.admin_session, BadCookie} : admin(c)

SpecLogin == Init /\ [][NextLogin]_vars

\* ------------------------------------------------------------------------
\* Seeding: stores with or without the top-level rows of the scripts' names
\* (bare as ensure_category_exists leaves them, or described), a sub-level
\* row, and the two Headphones rows that two concurrent imports can leave
\* ------------------------------------------------------------------------
SeedNames == <<Headphones, Tablets, StylersName, StylersSlashName, StylersOldName>>

OldDescription == <<"o","l","d">>

OldIcon == <<"i","0">>

SeedChoices == {"none", "bare", "described"}

\* the rows of a choice per name; the row of the i-th name has id i
SeededCategories(choice, twice, sub) ==
    {Category(i, SeedNames[i], NoText, NoText,
              IF choice[i] = "bare" THEN NoText ELSE OldDescription,
              IF choice[i] = "bare" THEN NoText ELSE OldIcon) :
        i \in {k \in DOMAIN SeedNames : choice[k] # "none"}}
      \cup (IF twice THEN {Category(6, Headphones, NoText, NoText, NoText, NoText)} ELSE {})
      \cup (IF sub THEN {Category(7, Tablets, Line1, NoText, NoText, NoText)} ELSE {})

InitSeed ==
    /\ \E choice \in [DOMAIN SeedNames -> SeedChoices], twice \in BOOLEAN, sub \in BOOLEAN :
          /\ twice => choice[1] # "none"
          /\ categories = SeededCategories(choice, twice, sub)
    /\ products = {}
    /\ prices = << >>
    /\ product_images = {}
    /\ next_id = 1
    /\ level2_descriptions = << >>
    /\ client = NewClient
    /\ clock = T0
    /\ last = NoResponse
    /\ InitNoOrders

NextSeed ==
    \/ add_headphones_category
    \/ add_tablets_category
    \/ add_smart_watches_category
    \/ add_stylers_category

SpecSeed == InitSeed /\ [][NextSeed]_vars

\* ------------------------------------------------------------------------
\* Backfill: products of two models and of none, described models whose
\* details the operators have filled in
\* ------------------------------------------------------------------------
BackfillBody(sku, level2) == [ListingBody(sku, Appo, PadAir, 100) EXCEPT !.level2 = level2]

BackfillBodies ==
    {BackfillBody(SkuA, PadAir), BackfillBody(SkuB, Pod), BackfillBody(SkuB, PadAir),
     BackfillBody(SkuC, NoText)}

FilledDetails == json_dumps({<<"chip", Gb128>>})

NextBackfill ==
    \/ \E d \in BackfillBodies : import_single_product(ADMIN_SESSION_TOKEN, d)
    \/ \E id \in 1..MaxProducts : delete_product(ADMIN_SESSION_TOKEN, id, TRUE)
    \/ add_missing_level2_descriptions
    \/ \E l \in {PadAir, Pod} : ExternalDetailsWrite(l, FilledDetails)

SpecBackfill == Init /\ [][NextBackfill]_vars

\* ------------------------------------------------------------------------
\* Price updates racing on one SKU: two server processes and the price
\* parser, which writes the file on its own
\* ------------------------------------------------------------------------
RaceBodies ==
    [sku : {SkuA}, price : {150, 200}, old_price : {None}, has_is_parse : BOOLEAN,
     is_parse : {FALSE}]

ParserRecords == {PriceRecord(100, 100, RUB, flag) : flag \in BOOLEAN}

NextPriceRace ==
    \/ import_single_product(ADMIN_SESSION_TOKEN, BackfillBody(SkuA, PadAir))
    \/ \E p \in Procs, d \in RaceBodies : update_price_read(p, ADMIN_SESSION_TOKEN, d)
    \/ \E p \in Procs : update_price_write(p)
    \/ \E rec \in ParserRecords : /\ HasSku(products, SkuA)
                                  /\ ExternalPriceWrite(SkuA, rec)

SpecPriceRace == Init /\ [][NextPriceRace]_vars

\* ------------------------------------------------------------------------
\* Category bookkeeping: products created with and without a series or a
\* model, with an image set (the request that commits the category rows),
\* moved to another level_0, deleted, and the category list read
\* ------------------------------------------------------------------------
CategoryBody(sku, level0, level1, level2, color) ==
    [ListingBody(sku, Appo, Pod, None) EXCEPT
        !.level0 = level0, !.level1 = level1, !.level2 = level2,
        !.level_2 = Pod, !.color = color, !.images = color # NoText]

CategoryBodies ==
    {CategoryBody(sku, level0, level1, level2, color) :
        sku \in {SkuA, SkuB}, level0 \in {Phones, Tablets}, level1 \in {Line1, NoText},
        level2 \in {PadAir, NoText}, color \in {Black, NoText}}

\* PUT /products/{id} {"level_0": ...}
MoveToTablets == [EditBody({"level_0"}) EXCEPT !.level_0 = Tablets]

NextCategories ==
    \/ \E d \in CategoryBodies : import_single_product(ADMIN_SESSION_TOKEN, d)
    \/ \E id \in 1..MaxProducts, ok \in BOOLEAN : delete_product(ADMIN_SESSION_TOKEN, id, ok)
    \/ \E id \in 1..MaxProducts : update_product(ADMIN_SESSION_TOKEN, id, MoveToTablets)
    \/ get_categories

SpecCategories == Init /\ [][NextCategories]_vars

\* ------------------------------------------------------------------------
\* Orders that name a promo code with a usage limit
\* ------------------------------------------------------------------------
LimitedUses == 1

SeededWithLimit ==
    {PromoCode(PR, "fixed", 200, None, NoText, NoCondition, TRUE, LimitedUses, 0, None, None)}

InitPromoLimit ==
    /\ products = {Product(1, SkuA, Name1, Appo, Phones, Line1, PadAir, json_dumps(NoSpecs), 0, TRUE)}
    /\ prices = set_price(<< >>, SkuA, 100, None, RUB, TRUE)
    /\ categories = {}
    /\ level2_descriptions = << >>
    /\ client = NewClient
    /\ product_images = {}
    /\ next_id = 2
    /\ clock = T0
    /\ last = NoResponse
    /\ promo_codes = SeededWithLimit
    /\ orders = {}
    /\ order_items = {}
    /\ next_order_id = 1
    /\ req = [p \in Procs |-> NoRequest]

SpecPromoLimit == InitPromoLimit /\ [][NextOrders]_vars

\* ------------------------------------------------------------------------
\* Properties
\* ------------------------------------------------------------------------
Range(seq) == {seq[i] : i \in DOMAIN seq}

AdminWriteOps ==
    {"import_single_product", "import_products_from_excel",
     "update_or_create_products_from_excel", "delete_product",
     "delete_product_by_sku", "update_price_by_sku"}

UploadOps == {"import_products_from_excel", "update_or_create_products_from_excel"}

DeleteOps == {"delete_product", "delete_product_by_sku"}

CatalogUnchanged ==
    /\ products' = products
    /\ prices' = prices
    /\ categories' = categories
    /\ product_images' = product_images

\* C1: every admin write endpoint answers a request whose admin_session
\* cookie is not the session token with 401 Unauthorized and changes
\* neither the database nor the price store.
C1_AdminWritesRequireCookie ==
    [][(last'.op \in AdminWriteOps /\ ~is_admin_authenticated(last'.cookie))
          => (last'.status = 401 /\ CatalogUnchanged)]_vars

\* C2: no two Product rows ever share a SKU; a single-product create or an
\* insert-only import row with an explicit SKU that a product already holds
\* is rejected, and the product holding it stays as it was.
UniqueSkus == \A p \in products, o \in products : p.sku = o.sku => p = o

C2_SkuUnique ==
    [][/\ UniqueSkus'
       /\ (last'.op = "import_single_product" /\ ~last'.body.generated
              /\ HasSku(products, last'.body.sku))
            => (last'.status = 400 /\ products' = products)
       /\ last'.op = "import_products_from_excel"
            => \A i \in DOMAIN last'.body.skus :
                  LET sku == last'.body.skus[i]
                  IN (sku # NoText /\ HasSku(products, sku))
                        => /\ last'.status = 400 \/ i \in Range(last'.body.errors)
                           /\ BySku(products, sku) \in products']_vars

C2_Witness ==
    /\ last.op = "import_products_from_excel"
    /\ last.status = 200
    /\ last.body.errors # << >>
    /\ \E i \in Range(last.body.errors) :
          last.body.skus[i] # NoText /\ HasSku(products, last.body.skus[i])
    /\ Cardinality(products) = 2

\* C3: a creation without a sku always succeeds with a non-empty generated
\* SKU that no existing product holds, also when two creations for the same
\* brand and model read the same timestamp.
NoSkuRows(skus) == Cardinality({i \in DOMAIN skus : skus[i] = NoText})

C3_GeneratedSkuAlwaysFresh ==
    [][/\ (last'.op = "import_single_product" /\ last'.body.generated)
            => /\ last'.status = 200
               /\ last'.body.sku # NoText
               /\ ~HasSku(products, last'.body.sku)
               /\ HasSku(products', last'.body.sku)
       /\ last'.op \in UploadOps
            => /\ \A i \in DOMAIN last'.body.skus :
                     last'.body.skus[i] = NoText
                        => last'.status = 200 /\ i \notin Range(last'.body.errors)
               /\ Cardinality(products')
                     >= Cardinality(products) + NoSkuRows(last'.body.skus)]_vars

\* C4: after a successful delete by id or by SKU the product row is gone and
\* the price store has no entry for its SKU; a delete of an unknown id or
\* SKU answers 404 and changes neither the database nor the price store.
C4_DeleteRemovesRowAndPrice ==
    [][last'.op \in DeleteOps
          => /\ last'.status = 200
                  => /\ ~HasId(products', last'.body.deleted_product_id)
                     /\ ~HasSku(products', last'.body.deleted_sku)
                     /\ ~HasPrice(prices', last'.body.deleted_sku)
                     /\ HasSku(products, last'.body.deleted_sku)
             /\ (\/ (last'.op = "delete_product"
                       /\ ~HasId(products, last'.body.deleted_product_id))
                 \/ (last'.op = "delete_product_by_sku"
                       /\ ~HasSku(products, last'.body.deleted_sku)))
                  => (last'.status = 404 /\ CatalogUnchanged)]_vars

C4_Witness ==
    /\ last.op \in DeleteOps
    /\ last.status = 200
    /\ last.body.had_price
    /\ ~HasPrice(prices, last.body.deleted_sku)
    /\ products # {}

\* C5 as stated: for a product whose SKU has no price-store entry,
\* GET /products/{id} answers 404, and GET /all-products, GET /products and
\* GET /search show the product or its model card with price 0, currency
\* RUB and discount 0; no endpoint ends in an unhandled error.
Unpriced == {p \in products : ~HasPrice(prices, p.sku)}

CardOf(card, p) == card.level_2 = p.level_2 /\ card.brand = p.brand

ZeroPrice(e) == e.price = 0 /\ e.currency = RUB /\ e.discount_percentage = 0

DetailAndListOfUnpriced ==
    /\ last.op = "get_product"
          => /\ last.status \in {200, 404}
             /\ \A p \in Unpriced : p.id = last.body.product_id => last.status = 404
    /\ last.op = "get_all_products"
          => /\ last.status = 200
             /\ \A p \in Unpriced : \E e \in last.body : e.id = p.id /\ ZeroPrice(e)

C5_UnpricedShownAsZero ==
    /\ DetailAndListOfUnpriced
    /\ last.op \in {"get_products", "search_products"}
          => /\ last.status = 200
             /\ \A p \in Unpriced : \A card \in last.body :
                   CardOf(card, p) => ZeroPrice(card)

\* C5 as amended: the model card of an unpriced product shows price 0, RUB
\* and discount 0 when no product of the card's (level_2, brand) pair has a
\* price-store entry, and the smallest price among the priced products of
\* the pair otherwise.
C5_UnpricedShownAsZeroUnlessSiblingPriced ==
    /\ DetailAndListOfUnpriced
    /\ last.op \in {"get_products", "search_products"}
          => /\ last.status = 200
             /\ \A p \in Unpriced : \A card \in last.body :
                   CardOf(card, p)
                      => LET priced == {m \in products : CardOf(card, m) /\ HasPrice(prices, m.sku)}
                         IN IF priced = {} THEN ZeroPrice(card)
                            ELSE /\ \E m \in priced : prices[m.sku].price = card.price
                                 /\ \A m \in priced : prices[m.sku].price >= card.price

C5_Witness ==
    /\ last.op = "search_products"
    /\ \E p \in Unpriced : \E card \in last.body :
          /\ CardOf(card, p) /\ ZeroPrice(card)
    /\ \E m \in products : HasPrice(prices, m.sku)

\* C6: each model card of GET /products shows the smallest price among the
\* priced products of its (level_2, brand) pair, the old_price and currency
\* of a product that has that price (the price itself when that product
\* records no old price, absent or 0), and the discount recomputed from the
\* pair (0 when old_price is not greater than price).
C6_CardShowsMinimumPrice ==
    last.op = "get_products"
       => \A card \in last.body :
             LET priced == {m \in products : CardOf(card, m) /\ HasPrice(prices, m.sku)}
             IN priced # {}
                   => /\ \A m \in priced : prices[m.sku].price >= card.price
                      /\ \E m \in priced :
                            /\ prices[m.sku].price = card.price
                            /\ card.currency = prices[m.sku].currency
                            /\ card.old_price =
                                  IF prices[m.sku].old_price \in {None, 0}
                                  THEN card.price ELSE prices[m.sku].old_price
                      /\ card.discount_percentage =
                            IF card.old_price > card.price
                            THEN ((card.old_price - card.price) * 100) \div card.old_price
                            ELSE 0

C6_Witness ==
    /\ last.op = "get_products"
    /\ \E card \in last.body : \E m \in products, o \in products :
          /\ CardOf(card, m) /\ CardOf(card, o)
          /\ HasPrice(prices, m.sku) /\ HasPrice(prices, o.sku)
          /\ card.id = m.id
          /\ prices[o.sku].price < prices[m.sku].price
          /\ card.price = prices[o.sku].price
          /\ card.old_price = 200
          /\ card.discount_percentage > 0

\* C7: the used_count of a promo code has grown by exactly one for each
\* created order that references the code, also when two order creations
\* that reference it interleave between reading and writing the counter.
OrdersReferencing(c) ==
    {o \in orders : o.promo_code # NoText /\ Upper(o.promo_code) = c.code}

SeededUsedCount(c) == (CHOOSE s \in SeededForOrders : s.code = c.code).used_count

C7_UsedCountCountsOrders ==
    \A c \in promo_codes :
        c.used_count = SeededUsedCount(c) + Cardinality(OrdersReferencing(c))

\* C8: a POST /orders that succeeds leaves the order row and one item row
\* for every line of the request; one that fails leaves no order row, no
\* item row and no change of a promo code's used_count.
ItemsOfOrder(table, id) == {i \in table : i.order_id = id}

C8_OrderAllOrNothing ==
    [][last'.op = "create_order"
         => IF last'.status = 200
            THEN /\ \E o \in orders' \ orders : o.id = last'.body.id
                 /\ Cardinality(orders') = Cardinality(orders) + 1
                 /\ order_items' \ order_items = ItemsOfOrder(order_items', last'.body.id)
                 /\ Cardinality(ItemsOfOrder(order_items', last'.body.id))
                       = Len(last'.body.order_data.items)
            ELSE /\ orders' = orders
                 /\ order_items' = order_items
                 /\ promo_codes' = promo_codes]_vars

C8_Witness ==
    /\ last.op = "create_order"
    /\ last.status = 500
    /\ last.body.order_data.promo_code # NoText
    /\ Len(last.body.order_data.items) = 2
    /\ orders # {}
    /\ \A o \in orders : ItemsOfOrder(order_items, o.id) # {}

\* C9: the final_total of every order is total - discount_amount when the
\* discount does not exceed the total, 0 when it does, and never negative.
C9_FinalTotalClamped ==
    \A o \in orders :
        /\ o.final_total >= 0
        /\ o.discount_amount <= o.total => o.final_total = o.total - o.discount_amount
        /\ o.discount_amount > o.total => o.final_total = 0

C9_Witness ==
    /\ \E o \in orders : o.total = 1000 /\ o.discount_amount = 200 /\ o.final_total = 800
    /\ \E o \in orders : o.total = 1000 /\ o.discount_amount = 1500 /\ o.final_total = 0

\* C10 as stated: for an active, in-window, non-exhausted free_item code
\* with free_item_sku set, the check answers valid=false when no cart line's
\* product SKU contains free_item_sku (case-insensitively); when one does,
\* it answers valid=true with discount_amount the price-store price of a
\* matching line's product, or valid=false when that product has no price.
CheckedPromo == CHOOSE c \in promo_codes : c.code = Upper(last.body.request.code)

FreeItemCodeInForce ==
    /\ last.op = "check_promo_code"
    /\ \E c \in promo_codes : c.code = Upper(last.body.request.code)
    /\ CheckedPromo.discount_type = "free_item"
    /\ CheckedPromo.is_active
    /\ CheckedPromo.valid_from # None => CheckedPromo.valid_from <= clock
    /\ CheckedPromo.valid_until # None => CheckedPromo.valid_until >= clock
    /\ ~(CheckedPromo.usage_limit \notin {None, 0}
         /\ CheckedPromo.used_count >= CheckedPromo.usage_limit)
    /\ CheckedPromo.free_item_sku # NoText

LineProducts(i) == {p \in products : p.id = last.body.request.items[i].product_id}

MatchingLines ==
    {i \in 1..Len(last.body.request.items) :
        \E p \in LineProducts(i) :
            Contains(Lower(p.sku), Lower(CheckedPromo.free_item_sku))}

LinePriced(i) == \E p \in LineProducts(i) : HasPrice(prices, p.sku)

LinePrice(i) == prices[(CHOOSE p \in LineProducts(i) : TRUE).sku].price

MinimumMet ==
    CheckedPromo.min_order_amount \in {None, 0}
       \/ last.body.request.cart_total >= CheckedPromo.min_order_amount

CategoryMet ==
    CheckedPromo.free_item_condition.kind = "category"
       => \E i \in 1..Len(last.body.request.items) : \E p \in LineProducts(i) :
             p.level_0 = CheckedPromo.free_item_condition.category

FirstMatchingLine == CHOOSE i \in MatchingLines : \A j \in MatchingLines : i <= j

CheckedBelowMinimum ==
    /\ last.op = "check_promo_code"
    /\ last.body.request.cart_total >= 0
    /\ \E c \in promo_codes :
          /\ c.code = Upper(last.body.request.code)
          /\ c.min_order_amount # None
          /\ c.min_order_amount > last.body.request.cart_total

ReimportStep ==
    /\ last.op = "export_products_to_excel"
    /\ last'.op = "update_or_create_products_from_excel"

SameCatalogFields(p, q) ==
    /\ p.sku = q.sku /\ p.name = q.name /\ p.brand = q.brand
    /\ p.level_0 = q.level_0 /\ p.level_1 = q.level_1 /\ p.level_2 = q.level_2
    /\ p.specifications.kind = "object" /\ q.specifications.kind = "object"
    /\ p.specifications.pairs = q.specifications.pairs

C13_FailingRowsDoNotStopImport ==
    [][(last'.op = "import_products_from_excel" /\ last'.body.ext_ok)
         => /\ last'.status = 200
            /\ last'.body.added + Len(last'.body.errors) = last'.body.total_processed
            /\ Cardinality(products') = Cardinality(products) + last'.body.added]_vars

\* the row lacks one of the fields the insert-only import requires
RowLacksRequired(row) ==
    row.level0 = NoText \/ row.brand = NoText \/ row.level2 = NoText

\* C14: in an update-or-create upload every row that lacks level0, brand or
\* level2 is reported in errors, and a file made of such rows only creates
\* no product, modifies none and writes no price.
C14_UpsertValidatesRows ==
    [][(last'.op = "update_or_create_products_from_excel" /\ last'.body.ext_ok)
         => LET rows == last'.body.rows
                lacking == {i \in 1..Len(rows) : RowLacksRequired(rows[i])}
            IN /\ \A i \in lacking :
                     \E k \in 1..Len(last'.body.errors) : last'.body.errors[k] = i
               /\ lacking = 1..Len(rows) => (products' = products /\ prices' = prices)]_vars

\* the value a present key must leave in the product, the old value otherwise
FieldApplied(keys, key, given, before, after) ==
    after = IF key \in keys THEN given ELSE before

\* C15: PUT /products/{id} on an unknown id answers 404 and changes nothing;
\* on a known id it answers 200, every recognized field present in the body
\* (name, brand, level_0, level_1, level_2, color, disk, sim_config,
\* is_available, stock) has the given value afterwards and every absent one
\* keeps its value.
C15_UpdateAppliesPresentFields ==
    [][last'.op = "update_product"
         => LET id == last'.body.product_id
                d == last'.body.d
            IN IF ~HasId(products, id)
               THEN last'.status = 404 /\ products' = products /\ prices' = prices
               ELSE /\ last'.status = 200
                    /\ HasId(products', id)
                    /\ LET before == ById(products, id)
                           after == ById(products', id)
                       IN /\ FieldApplied(d.keys, "name", d.name, before.name, after.name)
                          /\ FieldApplied(d.keys, "brand", d.brand, before.brand, after.brand)
                          /\ FieldApplied(d.keys, "level_0", d.level_0, before.level_0, after.level_0)
                          /\ FieldApplied(d.keys, "level_1", d.level_1, before.level_1, after.level_1)
                          /\ FieldApplied(d.keys, "level_2", d.level_2, before.level_2, after.level_2)
                          /\ FieldApplied(d.keys, "is_available", d.is_available,
                                          before.is_available, after.is_available)
                          /\ FieldApplied(d.keys, "stock", d.stock, before.stock, after.stock)
                          /\ FieldApplied(d.keys, "color", d.color,
                                          Product_color(before), Product_color(after))
                          /\ FieldApplied(d.keys, "disk", d.disk,
                                          Product_disk(before), Product_disk(after))
                          /\ FieldApplied(d.keys, "sim_config", d.sim_config,
                                          Product_sim_config(before), Product_sim_config(after))]_vars

\* C16: POST /update-price without sku or price answers an error, for a SKU
\* without a product it answers 404, and both leave the price store as it
\* was; for a SKU with a product it stores the given price, with old_price
\* equal to the price when the body has none and is_parse equal to the flag
\* of the entry stored before (true when there was none) when the body has
\* none, and no other entry changes.
C16_UpdatePriceDefaults ==
    [][last'.op = "update_price_by_sku"
         => LET d == last'.body.d
            IN IF d.sku = NoText \/ d.price = None
               THEN last'.status >= 400 /\ prices' = prices
               ELSE IF ~HasSku(products, d.sku)
               THEN last'.status = 404 /\ prices' = prices
               ELSE /\ last'.status = 200
                    /\ HasPrice(prices', d.sku)
                    /\ prices'[d.sku].price = d.price
                    /\ d.old_price = None => prices'[d.sku].old_price = d.price
                    /\ d.old_price = 200 => prices'[d.sku].old_price = 200
                    /\ ~d.has_is_parse =>
                          prices'[d.sku].is_parse =
                             (IF HasPrice(prices, d.sku) THEN prices[d.sku].is_parse ELSE TRUE)
                    /\ d.has_is_parse => prices'[d.sku].is_parse = d.is_parse
                    /\ \A s \in DOMAIN prices' \ {d.sku} :
                          s \in DOMAIN prices /\ prices'[s] = prices[s]]_vars

\* an update without old_price and is_parse has kept the stored flag false
C16_Witness ==
    /\ last.op = "update_price_by_sku" /\ last.status = 200
    /\ last.body.d.old_price = None /\ ~last.body.d.has_is_parse
    /\ HasSku(products, last.body.d.sku)
    /\ prices[last.body.d.sku].price = 150
    /\ prices[last.body.d.sku].old_price = 150
    /\ ~prices[last.body.d.sku].is_parse

\* C17: a read of color, disk, sim_config or memory never raises, whatever
\* the specifications column holds; it gives the empty string when the
\* document is absent, refused by the parser, not a map, or lacks the key;
\* memory gives what disk gives.
C17_PropertyReadsNeverRaise ==
    last.op = "read_property"
      => LET product == ById(products, last.body.product_id)
             doc == product.specifications
             key == IF last.body.name = "memory" THEN "disk" ELSE last.body.name
         IN /\ ~last.body.raised
            /\ (doc.kind # "object" \/ ~HasKey(doc.pairs, key)) => last.body.value = NoText
            /\ last.body.name = "memory" => last.body.value = Product_disk(product)

\* result is the details map overlaid by the product's own map
IsOverlay(result, details, own) ==
    /\ own \subseteq result
    /\ \A kv \in details : ~HasKey(own, kv[1]) => kv \in result
    /\ result \subseteq details \cup own

\* C18: the specifications of a product detail (GET /products/{id}) and of
\* every model card (GET /products, GET /search) are the details map of the
\* model's Level2Description row overlaid by the product's own
\* specifications: a details key the product lacks appears with the details
\* value, a key of both has the product's value.
C18_SpecificationsOverlayDetails ==
    [][/\ (last'.op = "get_product" /\ last'.status = 200)
            => LET product == ById(products, last'.body.product_id)
               IN IsOverlay(last'.body.detail.specifications,
                            Level2Specs(product), OwnSpecifications(product))
       /\ (last'.op \in {"get_products", "search_products"} /\ last'.status = 200)
            => \A card \in last'.body :
                  IsOverlay(card.specifications, Level2Specs(ById(products, card.id)),
                            OwnSpecifications(ById(products, card.id)))]_vars

\* C19: POST /login sets the admin_session cookie, to the fixed token, if
\* and only if the body's username and password equal the configured pair;
\* every other body, a non-JSON or an empty one included, is answered 401
\* and sets no cookie.
C19_LoginSetsCookieIffPairMatches ==
    [][last'.op = "login"
         => LET body == last'.body.body
                matches == /\ body.kind = "object"
                           /\ body.username = ADMIN_USERNAME
                           /\ body.password = ADMIN_PASSWORD
            IN IF matches
               THEN /\ last'.body.set_cookie = ADMIN_SESSION_TOKEN
                    /\ client'.admin_session = ADMIN_SESSION_TOKEN
               ELSE /\ last'.status = 401
                    /\ last'.body.set_cookie = NoCookie
                    /\ client'.admin_session = client.admin_session]_vars

\* C20: GET /admin serves the page exactly when the cookie of the request
\* equals the fixed token and redirects to the login page otherwise; a
\* browser that never logged in, whose logins all failed, or that logged
\* out holds no cookie and is redirected.
C20_AdminPageNeedsToken ==
    [][last'.op = "admin"
         => /\ last'.status = IF last'.cookie = ADMIN_SESSION_TOKEN THEN 200 ELSE 302
            /\ (last'.cookie = client.admin_session
                  /\ client.pc \in {"new", "login_failed", "logged_out"})
                 => last'.status = 302]_vars

\* a browser that logged in and out again has asked for the page and was
\* redirected
C20_Witness ==
    /\ last.op = "admin" /\ last.status = 302
    /\ last.cookie = client.admin_session
    /\ client.pc = "logged_out"

\* the scripts: the name each one seeds and the icon it sets
SeedScripts ==
    {[op |-> "add_headphones_category", name |-> Headphones, icon |-> headphones_icon],
     [op |-> "add_tablets_category", name |-> Tablets, icon |-> tablets_icon],
     [op |-> "add_smart_watches_category", name |-> SmartWatches, icon |-> smart_watches_icon],
     [op |-> "add_stylers_category", name |-> StylersName, icon |-> stylers_icon]}

\* C21: a run of a seeding script on a store with no or one top-level row
\* of its name leaves exactly one such row, with the script's icon, and a
\* description that was not empty is kept; the store after the run is again
\* such a store, so a second run leaves the same single row.
C21_SeedingIsIdempotent ==
    [][\A script \in SeedScripts :
          (last'.op = script.op /\ Cardinality(TopLevelRows(categories, script.name)) <= 1)
            => LET before == TopLevelRows(categories, script.name)
                   after == TopLevelRows(categories', script.name)
               IN /\ Cardinality(after) = 1
                  /\ \A c \in after :
                        /\ c.icon = script.icon
                        /\ \A b \in before : b.description # NoText => c.description = b.description
                        /\ \A b \in before : c.id = b.id]_vars

\* the tablets script has run on a store that held the described row: one
\* row, the new icon, the old description
C21_Witness ==
    /\ last.op = "add_tablets_category"
    /\ \E c \in categories :
          /\ TopLevelRows(categories, Tablets) = {c}
          /\ c.id = 2 /\ c.icon = tablets_icon /\ c.description = OldDescription

LegacyRows(cats) ==
    TopLevelRows(cats, StylersSlashName) \cup TopLevelRows(cats, StylersOldName)

\* C22: the stylers script on a store with a legacy top-level row and no
\* row of the current name inserts nothing and renames a legacy row: one
\* top-level row of the current name exists afterwards, with the icon; on a
\* store that has a row of the current name no legacy row changes.
C22_StylersRenamesLegacyRow ==
    [][last'.op = "add_stylers_category"
         => /\ (LegacyRows(categories) # {} /\ TopLevelRows(categories, StylersName) = {})
                 => /\ {c.id : c \in categories'} = {c.id : c \in categories}
                    /\ \E c \in categories' :
                          /\ TopLevelRows(categories', StylersName) = {c}
                          /\ c.icon = stylers_icon
                          /\ c.id \in {l.id : l \in LegacyRows(categories)}
            /\ TopLevelRows(categories, StylersName) # {}
                 => LegacyRows(categories') = LegacyRows(categories)]_vars

\* the row that was named with the slash name carries the current name
C22_Witness ==
    /\ last.op = "add_stylers_category"
    /\ \E c \in categories :
          /\ c.id = 4 /\ c.level_0 = StylersName /\ c.icon = stylers_icon
          /\ TopLevelRows(categories, StylersName) = {c}

\* C23: a run of the backfill script adds one Level2Description row, with
\* an empty description and details {}, for each non-empty level_2 of the
\* products that had no row, adds no other row and changes no row that
\* existed; after the run no level_2 is missing, so a second run adds none.
C23_BackfillAddsMissingRows ==
    [][last'.op = "add_missing_level2_descriptions"
         => LET wanted == {p.level_2 : p \in products} \ {NoText}
                missing == wanted \ DOMAIN level2_descriptions
            IN /\ DOMAIN level2_descriptions' = (DOMAIN level2_descriptions) \cup missing
               /\ last'.body.added_count = Cardinality(missing)
               /\ \A l \in missing :
                     /\ level2_descriptions'[l].description = NoText
                     /\ level2_descriptions'[l].details = json_dumps(NoSpecs)
               /\ \A l \in DOMAIN level2_descriptions :
                     level2_descriptions'[l] = level2_descriptions[l]
               /\ MissingLevel2(products', level2_descriptions') = {}]_vars

\* the script has added the row of one model and left the filled-in row of
\* the other as it was
C23_Witness ==
    /\ last.op = "add_missing_level2_descriptions"
    /\ last.body.added_count = 1
    /\ {p.level_2 : p \in products} = {PadAir, Pod}
    /\ \E a, b \in DOMAIN level2_descriptions :
          /\ level2_descriptions[a].details = FilledDetails
          /\ level2_descriptions[b] = Level2Description(NoText, json_dumps(NoSpecs))

\* the write of a price update whose body has no is_parse, for a SKU with a
\* stored entry
WriteWithoutFlag(p) ==
    /\ req[p].pc = "price_read" /\ req'[p].pc = "idle"
    /\ ~req[p].d.has_is_parse
    /\ HasPrice(prices, req[p].d.sku)

C25_OrderNumbersNeverCollide ==
    [][\A p \in Procs :
          /\ req'[p].pc = "begun"
               => \A q \in Procs \ {p} :
                     req'[q].pc \in {"begun", "flushed"}
                       => req'[q].order_number # req'[p].order_number
          /\ req[p].pc = "begun" /\ req'[p].pc = "idle"
               => last'.status # 500]_vars

\* C26: a DELETE /products/{id} or DELETE /products/by-sku/{sku} that ends
\* in an error response leaves the product row and the price-store entry as
\* they were before the request.
C26_FailedDeleteChangesNothing ==
    [][/\ last'.op \in {"delete_product", "delete_product_by_sku"}
       /\ last'.status >= 400
       => /\ products' = products
          /\ prices' = prices]_vars

\* a Category row of the level exists
HasLevelRow(cats, level, name) ==
    \E c \in cats :
        CASE level = 0 -> c.level_0 = name /\ c.level_1 = NoText /\ c.level_2 = NoText
          [] level = 1 -> c.level_1 = name /\ c.level_2 = NoText
          [] level = 2 -> c.level_2 = name

\* C27: after ensure_category_exists(level0, level1, level2) a Category row
\* exists for each level that was supplied, whether or not the other levels
\* were supplied, and calling it again with the same arguments adds no row.
C27_EnsureCreatesEachSuppliedLevel ==
    [][/\ last'.op = "import_single_product"
       /\ last'.status = 200
       /\ product_images' # product_images
       => LET product == CHOOSE row \in products' : row \notin products
          IN /\ product.level_0 # NoText => HasLevelRow(categories', 0, product.level_0)
             /\ product.level_1 # NoText => HasLevelRow(categories', 1, product.level_1)
             /\ product.level_2 # NoText => HasLevelRow(categories', 2, product.level_2)
             /\ ensure_category_exists(categories', product.level_0, product.level_1,
                                       product.level_2) = categories']_vars

\* C28: after any sequence of product creations, updates and deletions,
\* GET /categories returns exactly one entry for every distinct level_0 held
\* by at least one product, with product_count the current number of
\* products of that level_0, in non-increasing order of product_count.
C28_CategoriesFollowProducts ==
    last.op = "get_categories"
      => LET result == last.body.result
         IN /\ {result[i].level_0 : i \in DOMAIN result} = {p.level_0 : p \in products}
            /\ \A i, j \in DOMAIN result : i # j => result[i].level_0 # result[j].level_0
            /\ \A i \in DOMAIN result :
                  result[i].product_count =
                     Cardinality({p \in products : p.level_0 = result[i].level_0})
            /\ \A i, j \in DOMAIN result :
                  i < j => result[i].product_count >= result[j].product_count

\* C29: the used_count of a promo code with a usage_limit never exceeds the
\* limit; once it is reached no order creation increments it.
C29_UsedCountWithinLimit ==
    \A c \in promo_codes : c.usage_limit # None => c.used_count <= c.usage_limit

\* the SKUs whose price-store entry the step wrote
WrittenPrices ==
    {sku \in DOMAIN prices' : sku \notin DOMAIN prices \/ prices'[sku] # prices[sku]}

\* C30: when a product-creating request has finished, with success or with
\* an error, every SKU whose price-store entry it wrote has a committed
\* Product row.
C30_WrittenPricesHaveProducts ==
    [][last'.op \in {"import_single_product", "import_products_from_excel",
                     "update_or_create_products_from_excel"}
         => \A sku \in WrittenPrices : HasSku(products', sku)]_vars

=============================================================================
